---------------------------- MODULE Spec2Model ----------------------------
(***************************************************************************)
(* A model of the load-balancing core of routini: the selector family and  *)
(* the UniqueIterator, the select loop of the load balancer, the decision  *)
(* engine, the supervisor (background service) loop, the per-backend       *)
(* metrics and the proxy's telemetry hooks.                                *)
(*                                                                         *)
(* The module holds several specifications over one set of variables; each *)
(* specification exercises one part of the program and pins the variables  *)
(* it does not use:                                                        *)
(*   SpecSelect      select_with over a built selector, health changes     *)
(*   SpecEngine      DecisionEngine::evaluate_strategy + control plane     *)
(*   SpecSupervisor  BackgroundService::start, with a discrete clock       *)
(*   SpecMetrics     direct calls on one backend's Metrics handle          *)
(*   SpecProxy       request lifecycles driven by the ProxyHttp hooks      *)
(***************************************************************************)
EXTENDS Integers, Sequences, FiniteSets, TLC

VARIABLES
    backends,   \* registry snapshot: the set of backends (ordered by endpoint)
    weight,     \* Backend.weight
    health,     \* registry health per backend: enabled (discovery), healthy (probe)
    conns,      \* Backend.metrics.active_connections() as the engine or a build read it
    counter,    \* the live AtomicUsize of each backend's ActiveConnections
    latency,    \* Backend.metrics.average_latency(): a value in ms, or None
    config,     \* AdaptiveLbOpt: starting_strategy
    strategy,   \* the load balancer's current strategy descriptor
    selector,   \* the published selector (ArcSwap)
    cursor,     \* the shared cursor of the published round-robin selector
    sel,        \* the select_with call in progress
    sup,        \* the supervisor task: position, clock and its four deadlines
    ghost,      \* history: what the last operation observed (not program state)
    req         \* per request: the ConnectionCTX and the hook position

vars == <<backends, weight, health, conns, counter, latency, config, strategy,
          selector, cursor, sel, sup, ghost, req>>

\* Option<T>: None is the empty sequence, Some(x) the one-element sequence
None == <<>>
Some(x) == <<x>>
Val(o) == o[1]

-----------------------------------------------------------------------------
(* Bounds of the model.                                                    *)

MaxBackends == 3
MaxWeight == 2
MaxBudget == 4
MaxCursor == 4
MaxCalls == 4
MaxRequests == 2
MaxRetries == 1
MaxTime == 6000
MaxItems == 4
MaxThreads == 2
MaxRuns == 3

-----------------------------------------------------------------------------
(* The strategy descriptor: enum Adaptive.                                 *)

Adaptive == {"RoundRobin", "Random", "FNVHash", "Consistent",
             "FewestConnections", "FastestServer"}

AdaptiveDefault == "RoundRobin"

Dynamic == {"FewestConnections", "FastestServer"}

\* BTreeSet<Backend> iterates in endpoint order; endpoints are 1, 2, 3, ...
RECURSIVE SetToSeq(_)
SetToSeq(S) ==
    IF S = {} THEN <<>>
    ELSE LET m == CHOOSE x \in S : \A y \in S : x <= y
         IN  <<m>> \o SetToSeq(S \ {m})

Range(s) == {s[i] : i \in 1..Len(s)}

RECURSIVE MaxOf(_)
MaxOf(S) == LET x == CHOOSE y \in S : TRUE
            IN  IF S = {x} THEN x
                ELSE LET m == MaxOf(S \ {x}) IN IF x > m THEN x ELSE m

RECURSIVE MinOf(_)
MinOf(S) == LET x == CHOOSE y \in S : TRUE
            IN  IF S = {x} THEN x
                ELSE LET m == MinOf(S \ {x}) IN IF x < m THEN x ELSE m

\* Backend::hash_key: a 64-bit hash of the endpoint, distinct endpoints giving
\* distinct keys.
hash_key(b) == 7919 * b + 13

-----------------------------------------------------------------------------
(* fnv::FnvHasher, the selection algorithm of FNVHash: 64-bit FNV-1a.  A   *)
(* u64 is a sequence of 8 bytes, least significant first (to_le_bytes), so *)
(* that the wrapping multiplication keeps its width.                       *)

RECURSIVE Xor8(_, _, _)
\* bitwise xor of the low n bits of a and b
Xor8(a, b, n) ==
    IF n = 0 THEN 0
    ELSE ((a + b) % 2) + 2 * Xor8(a \div 2, b \div 2, n - 1)

RECURSIVE MulSmall(_, _, _, _)
\* the bytes i..8 of h * m (wrapping), given the carry into byte i
MulSmall(h, m, i, carry) ==
    IF i > 8 THEN <<>>
    ELSE LET v == h[i] * m + carry
         IN  <<v % 256>> \o MulSmall(h, m, i + 1, v \div 256)

RECURSIVE Add64(_, _, _, _)
\* the bytes i..8 of x + y (wrapping), given the carry into byte i
Add64(x, y, i, carry) ==
    IF i > 8 THEN <<>>
    ELSE LET v == x[i] + y[i] + carry
         IN  <<v % 256>> \o Add64(x, y, i + 1, v \div 256)

\* h.wrapping_mul(0x100000001b3): the prime is 2^40 + 0x1b3
MulFnvPrime(h) ==
    Add64(MulSmall(h, 435, 1, 0), <<0, 0, 0, 0, 0, h[1], h[2], h[3]>>, 1, 0)

\* 0xcbf29ce484222325
FnvOffsetBasis == <<37, 35, 34, 132, 228, 156, 242, 203>>

RECURSIVE FnvWrite(_, _)
\* Hasher::write: for each byte, hash ^= byte; hash *= prime
FnvWrite(h, bytes) ==
    IF bytes = <<>> THEN h
    ELSE FnvWrite(MulFnvPrime(<<Xor8(h[1], Head(bytes), 8)>> \o Tail(h)),
                  Tail(bytes))

\* a hasher that is kept in the selector instead of H::default() for each
\* call: what it returns depends on the selector that is asked, not on the key
HasherNextStateful(key) ==
    <<IF ghost.op = "rebuild_selector" THEN 1 ELSE 0, 0, 0, 0, 0, 0, 0, 0>>

\* SelectionAlgorithm::next for a Hasher: a fresh hasher over the key
HasherNext(key) == FnvWrite(FnvOffsetBasis, key)

RECURSIVE ModU64(_, _, _, _)
\* (h as usize) % n, from the most significant byte down
ModU64(h, n, i, acc) ==
    IF i = 0 THEN acc
    ELSE ModU64(h, n, i - 1, (acc * 256 + h[i]) % n)

\* the request keys of the model: b"", b"a", b"test"
Keys == {<<>>, <<97>>, <<116, 101, 115, 116>>}

RECURSIVE ToLeBytes(_, _)
\* the bytes i..8 of a usize whose value is the (small) number n
ToLeBytes(n, i) ==
    IF i > 8 THEN <<>> ELSE <<n % 256>> \o ToLeBytes(n \div 256, i + 1)

RECURSIVE Sub64(_, _, _, _)
\* the bytes i..8 of x - y (wrapping), given the borrow into byte i
Sub64(x, y, i, borrow) ==
    IF i > 8 THEN <<>>
    ELSE LET v == x[i] - y[i] - borrow
         IN  <<(v + 256) % 256>> \o Sub64(x, y, i + 1, IF v < 0 THEN 1 ELSE 0)

-----------------------------------------------------------------------------
(* Metrics.  ActiveConnections is an AtomicUsize, kept as its 8 bytes;     *)
(* LatencyEWMA is an AtomicF32 holding milliseconds.  A backend whose      *)
(* metrics lack the counter (the EWMA) has None for it: the calls then do  *)
(* nothing and the getters return None.                                    *)

\* a decrement that does nothing
keep_active_connections(c) == c

\* impl Metrics for ActiveConnections: fetch_add(1, Relaxed)
increment_active_connections(c) ==
    IF c = None THEN None ELSE Some(Add64(Val(c), ToLeBytes(1, 1), 1, 0))

\* impl Metrics for ActiveConnections: fetch_sub(1, Relaxed)
decrement_active_connections(c) ==
    IF c = None THEN None ELSE Some(Sub64(Val(c), ToLeBytes(1, 1), 1, 0))

\* DEFAULT_SMOOTHING_FACTOR, in tenths
SmoothingFactor10 == 5

\* impl Metrics for LatencyEWMA: record_latency.  The samples of the model
\* keep alpha * latency + (1 - alpha) * old_avg whole.
record_latency(old, latency_ms, alpha10) ==
    IF old = None THEN None
    ELSE IF Val(old) = 0 THEN Some(latency_ms)
    ELSE Some((alpha10 * latency_ms + (10 - alpha10) * Val(old)) \div 10)

-----------------------------------------------------------------------------
(* Selectors.  A selector is a record: kind (the AdaptiveSelector variant),*)
(* backends (the Box<[Backend]>), weighted (WeightedSelector only: 0-based *)
(* indexes into backends) and ring (Consistent only).                      *)

RECURSIVE Repeat(_, _)
Repeat(x, n) == IF n <= 0 THEN <<>> ELSE <<x>> \o Repeat(x, n - 1)

RECURSIVE Expand(_, _, _)
\* for (index, b) in backends.enumerate() { for _ in 0..b.weight { push(index) } }
Expand(bs, w, i) ==
    IF i > Len(bs) THEN <<>>
    ELSE Repeat(i - 1, w[bs[i]]) \o Expand(bs, w, i + 1)

WeightedSelectorNew(kind, B, w) ==
    LET bs == SetToSeq(B)
    IN  [kind |-> kind, backends |-> bs, weighted |-> Expand(bs, w, 1),
         ring |-> <<>>]

RECURSIVE Perms(_)
Perms(S) ==
    IF S = {} THEN {<<>>}
    ELSE UNION {{<<x>> \o p : p \in Perms(S \ {x})} : x \in S}

\* sort_unstable_by_key: the result is sorted by the key; the order of backends
\* with equal keys is not specified by the sort.
SortedOrders(B, key) ==
    {s \in Perms(B) : \A i \in 1..Len(s) : \A j \in 1..Len(s) :
                          i < j => key[s[i]] <= key[s[j]]}

\* a build that leaves the backends in the order of the snapshot
UnsortedBuild(B, c) ==
    {[kind |-> "FewestConnections", backends |-> SetToSeq(B), weighted |-> <<>>,
      ring |-> <<>>]}

\* FewestConnections::build_backend_selector / FastestServer::build_backend_selector:
\* a backend without the metric hits unreachable!()
BuildPanics(kind, B, c, l) ==
    \/ kind = "FewestConnections" /\ \E b \in B : c[b] = None
    \/ kind = "FastestServer" /\ \E b \in B : l[b] = None

FewestConnectionsBuild(B, c) ==
    {[kind |-> "FewestConnections", backends |-> s, weighted |-> <<>>,
      ring |-> <<>>] : s \in SortedOrders(B, [b \in B |-> Val(c[b])])}

FastestServerBuild(B, l) ==
    {[kind |-> "FastestServer", backends |-> s, weighted |-> <<>>,
      ring |-> <<>>] : s \in SortedOrders(B, [b \in B |-> Val(l[b])])}

\* Consistent (Ketama): PointsPerWeight * weight virtual nodes per backend on a
\* hash ring, ordered by point hash, ties by hash_key.
PointsPerWeight == 2
RingModulus == 65536

\* the ring hash of the i-th virtual node of b ("addr#i"): a multiplicative mix
PointHash(b, i) == (hash_key(b) * 40503 + i * 25173) % RingModulus

RingPoints(B, w) ==
    UNION {{<<PointHash(b, i), hash_key(b), i, b>> :
               i \in 1..(PointsPerWeight * w[b])} : b \in B}

PointLess(p, q) ==
    \/ p[1] < q[1]
    \/ p[1] = q[1] /\ p[2] < q[2]
    \/ p[1] = q[1] /\ p[2] = q[2] /\ p[3] < q[3]

RECURSIVE SortPoints(_)
SortPoints(P) ==
    IF P = {} THEN <<>>
    ELSE LET m == CHOOSE p \in P : \A q \in P \ {p} : PointLess(p, q)
         IN  <<m>> \o SortPoints(P \ {m})

ConsistentBuild(B, w) ==
    [kind |-> "Consistent", backends |-> SetToSeq(B), weighted |-> <<>>,
     ring |-> SortPoints(RingPoints(B, w))]

\* impl Strategy for Adaptive: build_backend_selector.  The result is the set of
\* selectors the build can produce (one, except for ties under the unstable sort).
build_backend_selector(kind, B, w, c, l) ==
    CASE kind \in {"RoundRobin", "Random", "FNVHash"} ->
            {WeightedSelectorNew(kind, B, w)}
      [] kind = "Consistent" -> {ConsistentBuild(B, w)}
      [] kind = "FewestConnections" -> FewestConnectionsBuild(B, c)
      [] kind = "FastestServer" -> FastestServerBuild(B, l)

\* impl Strategy for Adaptive: rebuild_frequency, in ms; None for the static ones
RebuildFrequencyMs == 200

rebuild_frequency(kind) ==
    IF kind \in Dynamic THEN Some(RebuildFrequencyMs) ELSE None

-----------------------------------------------------------------------------
(* Iterators.  An iterator is a record: index (the u64 seed of a           *)
(* WeightedIterator: 8 bytes for FNVHash, a number for RoundRobin and      *)
(* Random; the position for the others) and first.                         *)

\* an index that is always the first one
IndexZero(kind, index, len) == 0

\* index as usize % len
IndexMod(kind, index, len) ==
    IF kind = "FNVHash" THEN ModU64(index, len, 8, 0) ELSE index % len

\* the first ring position whose point hash is greater than the key's, wrapping
UpperBound(ring, h) ==
    LET above == {i \in 1..Len(ring) : ring[i][1] > h}
    IN  IF above = {} THEN 1 ELSE MinOf(above)

KeyRingHash(key) == ModU64(HasherNext(key), RingModulus, 8, 0)

\* an iter that does not ask the algorithm for its seed
iter_unseeded(s, key, alg) == [index |-> 0, first |-> TRUE]

\* BackendSelection::iter.  alg is what algorithm.next(key) returned for a
\* WeightedSelector: the hash of the key (FNVHash), the value taken from the
\* shared cursor (RoundRobin), a random number (Random).
iter(s, key, alg) ==
    CASE s.kind \in {"RoundRobin", "Random", "FNVHash"} ->
            [index |-> alg, first |-> TRUE]
      [] s.kind = "Consistent" ->
            [index |-> UpperBound(s.ring, KeyRingHash(key)), first |-> TRUE]
      [] OTHER -> [index |-> 0, first |-> TRUE]

\* a next() whose first pick is taken from the unique list, not the weighted one
WeightedIteratorNextUnweighted(s, it, alg) ==
    IF Len(s.backends) = 0 THEN [item |-> None, it |-> it]
    ELSE IF it.first
    THEN [item |-> Some(s.backends[IndexMod(s.kind, it.index, Len(s.backends)) + 1]),
          it |-> [it EXCEPT !.first = FALSE]]
    ELSE [item |-> Some(s.backends[IndexMod(s.kind, alg, Len(s.backends)) + 1]),
          it |-> [it EXCEPT !.index = alg]]

\* BackendIter::next: the backend yielded (or None) and the iterator afterwards.
\* alg is what algorithm.next(&index.to_le_bytes()) returns on a fallback.
WeightedIteratorNext(s, it, alg) ==
    IF Len(s.backends) = 0 THEN [item |-> None, it |-> it]
    ELSE IF it.first
    THEN [item |-> Some(s.backends[
                     s.weighted[IndexMod(s.kind, it.index, Len(s.weighted)) + 1] + 1]),
          it |-> [it EXCEPT !.first = FALSE]]
    ELSE [item |-> Some(s.backends[IndexMod(s.kind, alg, Len(s.backends)) + 1]),
          it |-> [it EXCEPT !.index = alg]]

SortedIterNext(s, it) ==
    IF it.index + 1 > Len(s.backends) THEN [item |-> None, it |-> it]
    ELSE [item |-> Some(s.backends[it.index + 1]),
          it |-> [it EXCEPT !.index = it.index + 1]]

ConsistentIterNext(s, it) ==
    IF Len(s.ring) = 0 THEN [item |-> None, it |-> it]
    ELSE [item |-> Some(s.ring[it.index][4]),
          it |-> [it EXCEPT !.index = (it.index % Len(s.ring)) + 1]]

AdaptiveIterNext(s, it, alg) ==
    CASE s.kind \in {"RoundRobin", "Random", "FNVHash"} ->
            WeightedIteratorNext(s, it, alg)
      [] s.kind = "Consistent" -> ConsistentIterNext(s, it)
      [] OTHER -> SortedIterNext(s, it)

-----------------------------------------------------------------------------
(* UniqueIterator and AdaptiveLoadBalancer::select_with.                   *)

\* A get_next that gives up one step early (steps + 1 >= max_iterations): what
\* the budget check of get_next must not be.
UniqueIteratorStepEarly(u, item) ==
    IF item = None THEN [u |-> u, ret |-> "None"]
    ELSE IF u.steps + 1 >= u.max_iterations THEN [u |-> u, ret |-> "None"]
    ELSE IF hash_key(Val(item)) \notin u.seen
    THEN [u |-> [u EXCEPT !.steps = @ + 1, !.seen = @ \cup {hash_key(Val(item))}],
          ret |-> "Some"]
    ELSE [u |-> [u EXCEPT !.steps = @ + 1], ret |-> "Loop"]

\* A get_next that does not look at the set of seen keys: what the duplicate
\* check of get_next must not be.
UniqueIteratorStepNoSeen(u, item) ==
    IF item = None THEN [u |-> u, ret |-> "None"]
    ELSE IF u.steps >= u.max_iterations THEN [u |-> u, ret |-> "None"]
    ELSE [u |-> [u EXCEPT !.steps = @ + 1], ret |-> "Some"]

\* A get_next that counts a step only for a backend it has not seen
UniqueIteratorStepFreshOnly(u, item) ==
    IF item = None THEN [u |-> u, ret |-> "None"]
    ELSE IF u.steps >= u.max_iterations THEN [u |-> u, ret |-> "None"]
    ELSE IF hash_key(Val(item)) \notin u.seen
    THEN [u |-> [u EXCEPT !.steps = @ + 1, !.seen = @ \cup {hash_key(Val(item))}],
          ret |-> "Some"]
    ELSE [u |-> u, ret |-> "Loop"]

\* One turn of the while loop of UniqueIterator::get_next, after iter.next()
\* returned item.  u is [seen, steps, max_iterations]; ret tells whether
\* get_next returns None, returns Some(item), or loops.
UniqueIteratorStep(u, item) ==
    IF item = None THEN [u |-> u, ret |-> "None"]
    ELSE IF u.steps >= u.max_iterations THEN [u |-> u, ret |-> "None"]
    ELSE IF hash_key(Val(item)) \notin u.seen
    THEN [u |-> [u EXCEPT !.steps = @ + 1, !.seen = @ \cup {hash_key(Val(item))}],
          ret |-> "Some"]
    ELSE [u |-> [u EXCEPT !.steps = @ + 1], ret |-> "Loop"]

\* Health of a backend: enabled is the readiness set by discovery, healthy the
\* result of the last probe; both are true for a backend that is new
DefaultHealth == [enabled |-> TRUE, healthy |-> TRUE]

HealthOf(ok) == [enabled |-> TRUE, healthy |-> ok]

\* a readiness that looks at the result of the probes only
readyIfHealthy(b) == b \in DOMAIN health /\ health[b].healthy

\* Backends::ready: the registry's readiness of a backend
ready(b) == b \in DOMAIN health /\ health[b].enabled /\ health[b].healthy

\* an accept function that ignores the readiness: |_, _| true
accept_any(b, healthy) == TRUE

\* the accept function of select: |_, health| health
default_accept(b, healthy) == healthy

\* the accept functions a caller passes to select_with: "default" is select's,
\* "none" never accepts (it walks the UniqueIterator until get_next returns None)
AcceptFns == {"default", "none"}

\* "any" is the |_, _| true of the tests
accept(f, b, healthy) ==
    CASE f = "default" -> default_accept(b, healthy)
      [] f = "any" -> accept_any(b, healthy)
      [] f = "none" -> FALSE

IdleSel ==
    [pc |-> "idle", key |-> <<>>, accept |-> "default", selector |-> None,
     it |-> None, u |-> None, inner |-> 0, out |-> <<>>, result |-> None]

Weighted == {"RoundRobin", "Random", "FNVHash"}

\* What algorithm.next returns: the hash of the bytes (FNVHash), the value of
\* the shared cursor, which it increments (RoundRobin), any number (Random:
\* only its remainder by len is used).
AlgNextAt(kind, bytes, len, cur) ==
    CASE kind = "FNVHash" -> {HasherNext(bytes)}
      [] kind = "RoundRobin" -> {cur}
      [] kind = "Random" -> 0..(IF len = 0 THEN 0 ELSE len - 1)
      [] OTHER -> {0}

AlgNext(kind, bytes, len) == AlgNextAt(kind, bytes, len, cursor)

\* selector.load(); UniqueIterator::new(selection.iter(key), max_iterations)
SelectStart(key, max_iterations, f) ==
    /\ sel.pc = "idle"
    /\ selector.kind = "RoundRobin" => cursor < MaxCursor
    /\ \E alg \in AlgNext(selector.kind, key, Len(selector.weighted)) :
         sel' = [IdleSel EXCEPT
                    !.pc = "iter", !.key = key, !.accept = f,
                    !.selector = selector,
                    !.it = iter(selector, key, alg),
                    !.u = [seen |-> {}, steps |-> 0,
                           max_iterations |-> max_iterations]]
    /\ cursor' = IF selector.kind = "RoundRobin" THEN cursor + 1 ELSE cursor
    /\ UNCHANGED <<backends, weight, health, conns, counter, latency, config, strategy,
                   selector, sup, ghost, req>>

\* does this call of next() ask the algorithm for a fallback index
IsFallback(s, it) ==
    s.kind \in Weighted /\ Len(s.backends) > 0 /\ ~it.first

\* One turn of the loop of get_next inside the loop of select_with: the inner
\* next(), the budget and duplicate checks and, for a fresh backend, accept.
SelectStep ==
    /\ sel.pc = "iter"
    /\ LET s == sel.selector
           fb == IsFallback(s, sel.it)
       IN
       /\ (fb /\ s.kind = "RoundRobin") => cursor < MaxCursor
       /\ cursor' = IF fb /\ s.kind = "RoundRobin" THEN cursor + 1 ELSE cursor
       /\ \E alg \in (IF fb THEN AlgNext(s.kind, sel.it.index, Len(s.backends))
                      ELSE {0}) :
            LET n == AdaptiveIterNext(s, sel.it, alg)
                r == UniqueIteratorStep(sel.u, n.item)
                base == [sel EXCEPT !.it = n.it, !.u = r.u, !.inner = @ + 1]
            IN  sel' =
                  CASE r.ret = "None" -> [base EXCEPT !.pc = "done"]
                    [] r.ret = "Loop" -> base
                    [] r.ret = "Some" ->
                         IF accept(sel.accept, Val(n.item), ready(Val(n.item)))
                         THEN [base EXCEPT !.pc = "done", !.result = n.item,
                                           !.out = Append(@, Val(n.item))]
                         ELSE [base EXCEPT !.out = Append(@, Val(n.item))]
    /\ UNCHANGED <<backends, weight, health, conns, counter, latency, config, strategy,
                   selector, sup, ghost, req>>

\* select_with has returned; the caller may call again
SelectReturn ==
    /\ sel.pc = "done"
    /\ sel' = IdleSel
    /\ UNCHANGED <<backends, weight, health, conns, counter, latency, config, strategy,
                   selector, cursor, sup, ghost, req>>

\* Backends::run_health_check publishes the probe result of one backend
RunHealthCheck(b, ok) ==
    /\ b \in backends
    /\ health[b].healthy # ok
    /\ health' = [health EXCEPT ![b].healthy = ok]
    /\ UNCHANGED <<backends, weight, conns, counter, latency, config, strategy, selector,
                   cursor, sel, sup, ghost, req>>

-----------------------------------------------------------------------------
(* SpecSelect: a load balancer over a snapshot of 0..MaxBackends backends  *)
(* with any strategy; select_with calls with any key, budget and accept    *)
(* function, while health checks change the readiness.                     *)

\* the weights of a snapshot: every backend has weight 1, except at most one
\* heavier backend
WeightProfiles(n) ==
    {[b \in 1..n |-> IF b = h THEN w ELSE 1] : h \in 1..n, w \in 1..MaxWeight}
        \cup {[b \in 1..n |-> 1]}

\* the budgets a caller passes: none, one per backend, the largest of the model
Budgets == {0, Cardinality(backends), MaxBudget}

SelectConnValues == {0, 5}
SelectLatencyValues == {10, 50}

IdleSup == [pc |-> "off"]
NoGhost == [op |-> "none", age |-> 0]
NoReq == <<>>

\* AdaptiveLbOpt: the starting strategy and the two optional periods
Options(start, update_frequency, health_check_frequency) ==
    [starting_strategy |-> start, update_frequency |-> update_frequency,
     health_check_frequency |-> health_check_frequency]

\* the live counter behind a count c that active_connections() returned
CounterOf(c) == IF c = None THEN None ELSE Some(ToLeBytes(Val(c), 1))

InitSelect ==
    \E n \in 0..MaxBackends, kind \in Adaptive :
      /\ backends = 1..n
      /\ strategy = kind
      /\ config = Options(kind, None, None)
      /\ weight \in IF kind \in Weighted \cup {"Consistent"}
                    THEN WeightProfiles(n) ELSE [1..n -> {1}]
      /\ conns \in IF kind = "FewestConnections"
                   THEN [1..n -> {Some(v) : v \in SelectConnValues}]
                   ELSE [1..n -> {Some(0)}]
      /\ counter = [b \in 1..n |-> CounterOf(conns[b])]
      /\ latency \in IF kind = "FastestServer"
                     THEN [1..n -> {Some(v) : v \in SelectLatencyValues}]
                     ELSE [1..n -> {Some(0)}]
      /\ health = [b \in 1..n |-> DefaultHealth]
      /\ selector \in build_backend_selector(kind, backends, weight, conns, latency)
      /\ cursor = 0
      /\ sel = IdleSel
      /\ sup = IdleSup
      /\ ghost = NoGhost
      /\ req = NoReq

SelectKeys == IF selector.kind \in {"FNVHash", "Consistent"} THEN Keys ELSE {<<>>}

NextSelect ==
    \/ \E key \in SelectKeys, m \in Budgets, f \in AcceptFns :
          SelectStart(key, m, f)
    \/ SelectStep
    \/ SelectReturn
    \/ \E b \in backends, ok \in BOOLEAN : RunHealthCheck(b, ok)

SpecSelect == InitSelect /\ [][NextSelect]_vars

\* C1 (health gating): a select with the default accept function returns None
\* or a backend whose registry readiness was true at the step where select
\* checked it; it never returns a backend that is not ready at that step.
C1_HealthGating ==
    [][(sel.pc = "iter" /\ sel.accept = "default" /\ sel'.pc = "done"
          /\ sel'.result # None)
        => ready(Val(sel'.result))]_vars

\* C1 witness: a default select returned a ready backend after it had passed
\* over a backend that was not ready.
C1_Witness ==
    /\ sel.pc = "done"
    /\ sel.accept = "default"
    /\ sel.result # None
    /\ Len(sel.out) >= 2
    /\ ~ready(sel.out[1])
    /\ ready(Val(sel.result))

\* the select in progress has walked UniqueIterator(iter(key), |B|) until
\* get_next returned None
Exhausted ==
    /\ sel.pc = "done"
    /\ sel.accept = "none"
    /\ sel.u.max_iterations = Len(sel.selector.backends)

\* every backend of the snapshot was returned, each once
Covered ==
    /\ Range(sel.out) = Range(sel.selector.backends)
    /\ Len(sel.out) = Len(sel.selector.backends)

\* C2 as stated (eventual coverage for every strategy): walking
\* UniqueIterator(S.iter(k), |B|) until None returns every backend of B
\* exactly once, for all six strategies.
C2_CoverageEveryStrategy == Exhausted => Covered

\* C2 amended (eventual coverage of the sorted strategies): walking
\* UniqueIterator(S.iter(k), |B|) until None returns every backend of B
\* exactly once when S is FewestConnections or FastestServer.
C2_CoverageSortedStrategies ==
    (Exhausted /\ sel.selector.kind \in Dynamic) => Covered

\* C2 witness: a FewestConnections walk with budget |B| over three backends
\* has ended, having returned all three.
C2_Witness ==
    /\ Exhausted
    /\ sel.selector.kind = "FewestConnections"
    /\ Len(sel.selector.backends) = 3
    /\ Len(sel.out) = 3


-----------------------------------------------------------------------------
(* DecisionEngine.  The f32 values of the model are whole numbers, so a    *)
(* quotient is kept as numerator and denominator and compared by cross     *)
(* multiplication, the thresholds in tenths: num/den > r.  x/0 is +inf for *)
(* x > 0 (greater than any threshold) and 0/0 is NaN (greater than none).  *)

ConnectionsDivergenceRatio10 == 12
LatencyDivergenceRatio10 == 20
MinNrOfConnections == 1000

FloatGreater(num, den, r10) == num * 10 > r10 * den

\* should_use_fewest_connections with `max > min_connections`: the threshold
\* itself does not count
should_use_fewest_connections_above(B, c, min_connections) ==
    IF Cardinality(B) < 2 THEN FALSE
    ELSE LET tracked == {Val(c[b]) : b \in {x \in B : c[x] # None}}
         IN  IF tracked = {} THEN FALSE
             ELSE LET max == MaxOf(tracked)
                      min == MinOf(tracked)
                      ratio == IF max > min_connections THEN <<max, min>>
                               ELSE <<1, 1>>
                  IN  FloatGreater(ratio[1], ratio[2], ConnectionsDivergenceRatio10)

\* DecisionEngine::should_use_fastest_server
should_use_fastest_server(B, l) ==
    IF Cardinality(B) < 2 THEN FALSE
    ELSE LET samples == {IF l[b] = None THEN 0 ELSE Val(l[b]) : b \in B}
             max == MaxOf(samples)
             min == MinOf(samples)
             ratio == IF min > 0 THEN <<max, min>> ELSE <<1, 1>>
         IN  FloatGreater(ratio[1], ratio[2], LatencyDivergenceRatio10)

\* DecisionEngine::should_use_fewest_connections
should_use_fewest_connections(B, c, min_connections) ==
    IF Cardinality(B) < 2 THEN FALSE
    ELSE LET tracked == {Val(c[b]) : b \in {x \in B : c[x] # None}}
         IN  IF tracked = {} THEN FALSE
             ELSE LET max == MaxOf(tracked)
                      min == MinOf(tracked)
                      ratio == IF max >= min_connections THEN <<max, min>>
                               ELSE <<1, 1>>
                  IN  FloatGreater(ratio[1], ratio[2], ConnectionsDivergenceRatio10)

\* an evaluate_strategy whose dynamic branches look at their own trigger only
evaluate_strategy_own_trigger(current_strategy, B, c, l) ==
    CASE current_strategy = "FastestServer" ->
            IF should_use_fastest_server(B, l) THEN "FastestServer"
            ELSE "RoundRobin"
      [] current_strategy = "FewestConnections" ->
            IF should_use_fewest_connections(B, c, MinNrOfConnections)
            THEN "FewestConnections"
            ELSE "RoundRobin"
      [] OTHER ->
            IF should_use_fastest_server(B, l) THEN "FastestServer"
            ELSE IF should_use_fewest_connections(B, c, MinNrOfConnections)
            THEN "FewestConnections"
            ELSE current_strategy

\* an evaluate_strategy that keeps its current strategy, dynamic or static,
\* when neither trigger fires
evaluate_strategy_keeping(current_strategy, B, c, l) ==
    IF should_use_fastest_server(B, l) THEN "FastestServer"
    ELSE IF should_use_fewest_connections(B, c, MinNrOfConnections)
    THEN "FewestConnections"
    ELSE current_strategy

\* DecisionEngine::evaluate_strategy
evaluate_strategy(current_strategy, B, c, l) ==
    CASE current_strategy = "FastestServer" ->
            IF should_use_fewest_connections(B, c, MinNrOfConnections)
            THEN "FewestConnections"
            ELSE IF should_use_fastest_server(B, l) THEN "FastestServer"
            ELSE "RoundRobin"
      [] current_strategy = "FewestConnections" ->
            IF should_use_fastest_server(B, l) THEN "FastestServer"
            ELSE IF should_use_fewest_connections(B, c, MinNrOfConnections)
            THEN "FewestConnections"
            ELSE "RoundRobin"
      [] current_strategy = "FNVHash" ->
            IF should_use_fastest_server(B, l) THEN "FastestServer"
            ELSE IF should_use_fewest_connections(B, c, MinNrOfConnections)
            THEN "FewestConnections"
            ELSE "FNVHash"
      [] current_strategy = "RoundRobin" ->
            IF should_use_fastest_server(B, l) THEN "FastestServer"
            ELSE IF should_use_fewest_connections(B, c, MinNrOfConnections)
            THEN "FewestConnections"
            ELSE "RoundRobin"
      [] current_strategy = "Random" ->
            IF should_use_fastest_server(B, l) THEN "FastestServer"
            ELSE IF should_use_fewest_connections(B, c, MinNrOfConnections)
            THEN "FewestConnections"
            ELSE "Random"
      [] current_strategy = "Consistent" ->
            IF should_use_fastest_server(B, l) THEN "FastestServer"
            ELSE IF should_use_fewest_connections(B, c, MinNrOfConnections)
            THEN "FewestConnections"
            ELSE "Consistent"

\* LoadBalancer::update_strategy: nothing when the strategy is the current one;
\* else the descriptor is swapped and the selector built from the snapshot.  A
\* build that fails on a missing metric publishes no selector.
UpdateStrategy(new_strategy) ==
    IF new_strategy = strategy THEN UNCHANGED <<strategy, selector, cursor>>
    ELSE /\ strategy' = new_strategy
         /\ IF BuildPanics(new_strategy, backends, conns, latency)
            THEN UNCHANGED <<selector, cursor>>
            ELSE /\ selector' \in build_backend_selector(new_strategy, backends,
                                                        weight, conns, latency)
                 /\ cursor' = 0

\* the age of the published selector after update_strategy
AgeAfterUpdate(new_strategy) ==
    IF new_strategy = strategy
          \/ BuildPanics(new_strategy, backends, conns, latency)
    THEN ghost.age ELSE 0

\* One strategy evaluation: current_strategy(), the snapshot, evaluate_strategy,
\* update_strategy.  ghost keeps what the engine was given and returned.
EvaluateAndUpdate ==
    LET new == evaluate_strategy(strategy, backends, conns, latency)
    IN  /\ UpdateStrategy(new)
        /\ ghost' = [op |-> "evaluate", from |-> strategy, to |-> new,
                     age |-> AgeAfterUpdate(new)]

\* a strategy evaluation run on its own (the supervisor is not started)
Evaluate ==
    /\ sup.pc = "off"
    /\ EvaluateAndUpdate
    /\ UNCHANGED <<backends, weight, health, conns, counter, latency, config,
                   sel, sup, req>>

\* The control plane: SetStrategyEndpoint::response calls update_strategy with
\* the strategy named in the request body
SetStrategy(new_strategy) ==
    /\ UpdateStrategy(new_strategy)
    /\ ghost' = [op |-> "update_strategy", age |-> AgeAfterUpdate(new_strategy)]
    /\ UNCHANGED <<backends, weight, health, conns, counter, latency, config,
                   sel, sup, req>>

-----------------------------------------------------------------------------
(* SpecEngine: the decision engine over the metrics snapshots of           *)
(* 0..MaxBackends backends, each backend with or without either metric,    *)
(* from every current strategy (the control plane installs any).  The      *)
(* engine folds over the set of backends, one metric at a time: the        *)
(* snapshots are enumerated up to the order of the values of each metric.  *)

ConnOptions == <<None, Some(0), Some(900), Some(1000), Some(1200)>>
LatencyOptions == <<None, Some(0), Some(10), Some(50)>>

StartingStrategies == {"RoundRobin", "Consistent"}

\* the non-decreasing ways to give each of n backends one of k options
Ascending(n, k) ==
    {m \in [1..n -> 1..k] : \A i \in 1..n : \A j \in 1..n : i < j => m[i] <= m[j]}

InitEngine ==
    \E n \in 0..MaxBackends, start \in StartingStrategies :
      \E mc \in Ascending(n, Len(ConnOptions)), ml \in Ascending(n, Len(LatencyOptions)) :
        /\ backends = 1..n
        /\ conns = [b \in 1..n |-> ConnOptions[mc[b]]]
        /\ latency = [b \in 1..n |-> LatencyOptions[ml[b]]]
        /\ counter = [b \in 1..n |-> CounterOf(conns[b])]
        /\ config = Options(start, None, None)
        /\ strategy = start
        /\ weight = [b \in 1..n |-> 1]
        /\ health = [b \in 1..n |-> DefaultHealth]
        /\ selector \in build_backend_selector(start, backends, weight, conns,
                                                latency)
        /\ cursor = 0
        /\ sel = IdleSel
        /\ sup = IdleSup
        /\ ghost = NoGhost
        /\ req = NoReq

NextEngine ==
    \/ Evaluate
    \/ \E s \in Adaptive : SetStrategy(s)

SpecEngine == InitEngine /\ [][NextEngine]_vars

\* the latency trigger: latency_max/latency_min over the snapshot (a backend
\* without samples counts as 0; the ratio is 1 when the minimum is 0) exceeds
\* latency_divergence_ratio
LatencyTrigger ==
    /\ backends # {}
    /\ LET samples == {IF latency[b] = None THEN 0 ELSE Val(latency[b]) :
                          b \in backends}
       IN  /\ MinOf(samples) > 0
           /\ MaxOf(samples) * 10 > LatencyDivergenceRatio10 * MinOf(samples)

\* the connection trigger: over the backends that track connections, conn_max
\* >= min_nr_of_connections and conn_max/conn_min > connections_divergence_ratio
ConnectionTrigger ==
    LET tracked == {Val(conns[b]) : b \in {x \in backends : conns[x] # None}}
    IN  /\ tracked # {}
        /\ MaxOf(tracked) >= MinNrOfConnections
        /\ MaxOf(tracked) * 10 > ConnectionsDivergenceRatio10 * MinOf(tracked)

Evaluated == ghost.op = "evaluate"

\* C4 (latency has priority): for every current strategy and snapshot, when
\* the latency trigger fires evaluate_strategy returns FastestServer, also when
\* the connection trigger fires too.
C4_LatencyPriority ==
    (Evaluated /\ LatencyTrigger) => ghost.to = "FastestServer"

\* C4 case: the engine was asked from FastestServer with both triggers firing
C4_Witness ==
    /\ Evaluated
    /\ ghost.from = "FastestServer"
    /\ LatencyTrigger
    /\ ConnectionTrigger

\* C5 (connection trigger): when the latency trigger does not fire,
\* evaluate_strategy returns FewestConnections if and only if conn_max >=
\* min_nr_of_connections and conn_max/conn_min > connections_divergence_ratio,
\* from every current strategy.
C5_ConnectionTrigger ==
    (Evaluated /\ ~LatencyTrigger)
    => (ghost.to = "FewestConnections" <=> ConnectionTrigger)

\* C5 witness: counts {1200, 900} without latency divergence gave
\* FewestConnections from a static strategy
C5_Witness ==
    /\ Evaluated
    /\ ~LatencyTrigger
    /\ {Val(conns[b]) : b \in {x \in backends : conns[x] # None}} = {900, 1200}
    /\ ghost.from \notin Dynamic
    /\ ghost.to = "FewestConnections"

\* C6 (revert to the configured default): when neither trigger fires,
\* evaluate_strategy returns the configured starting strategy, whatever the
\* current strategy is.
C6_RevertToConfiguredDefault ==
    (Evaluated /\ ~LatencyTrigger /\ ~ConnectionTrigger)
    => ghost.to = config.starting_strategy

\* C6 case: the engine was asked with no trigger firing while the current
\* strategy was not the configured one
C6_Witness ==
    /\ Evaluated
    /\ ~LatencyTrigger
    /\ ~ConnectionTrigger
    /\ ghost.from # config.starting_strategy

\* C7 (hysteresis): from FewestConnections or FastestServer, while at least
\* one trigger fires the result is a dynamic strategy; the engine leaves the
\* dynamic strategies only if both triggers are below their thresholds.
C7_Hysteresis ==
    (Evaluated /\ ghost.from \in Dynamic /\ (LatencyTrigger \/ ConnectionTrigger))
    => ghost.to \in Dynamic

\* C7 witness: from FewestConnections, with the latency trigger alone firing,
\* the engine stayed within the dynamic strategies
C7_Witness ==
    /\ Evaluated
    /\ ghost.from = "FewestConnections"
    /\ LatencyTrigger
    /\ ~ConnectionTrigger
    /\ ghost.to \in Dynamic

\* C8 (no strategy without its metric): the engine never returns
\* FewestConnections when some backend has no active_connections metric, nor
\* FastestServer when some backend has no average_latency metric: building the
\* selector of the returned strategy does not hit the missing-metric failure.
C8_NoStrategyWithoutMetric ==
    Evaluated => ~BuildPanics(ghost.to, backends, conns, latency)

\* C8 case: the engine was asked while a backend had no active_connections
\* metric and the others' counts diverged
C8_Witness ==
    /\ Evaluated
    /\ \E b \in backends : conns[b] = None
    /\ ConnectionTrigger

-----------------------------------------------------------------------------
(* The supervisor: BackgroundService::start.  Time is a discrete clock in  *)
(* ms; the task's steps take no time and the timer of sleep_until fires on *)
(* time, so time passes only while the task sleeps before its deadline.    *)
(* A deadline now + NEVER (136 years) lies beyond every                    *)
(* time of the model: it is None.  sup.updates and sup.health_checks count *)
(* the runs of update() and of run_health_check().                         *)

EvaluateStrategyFrequencyMs == 5000
HealthCheckFrequencyMs == 1000

\* the clock advances by half a rebuild period
TickMs == RebuildFrequencyMs \div 2

\* the number of runs after one more (counted up to MaxRuns)
Counted(n) == IF n < MaxRuns THEN n + 1 ELSE n

\* now + frequency.unwrap_or_default(): a missing period taken as zero
AfterDefault(now, frequency) ==
    IF frequency = None THEN Some(now) ELSE Some(now + Val(frequency))

\* now + frequency.unwrap_or(NEVER)
After(now, frequency) == IF frequency = None THEN None ELSE Some(now + Val(frequency))

\* deadline <= now
Due(deadline, now) == deadline # None /\ Val(deadline) <= now

\* [next_update, next_health_check, next_strategy_eval, selector_rebuild].iter().min()
ToWake(s) ==
    LET near == {Val(d) : d \in {x \in {s.next_update, s.next_health_check,
                                         s.next_strategy_eval, s.selector_rebuild} :
                                   x # None}}
    IN  IF near = {} THEN None ELSE Some(MinOf(near))

\* a rebuild deadline that is set anew after every evaluation
RescheduleRebuildAlways(was_updated, now, old_deadline, new_strategy) ==
    After(now, rebuild_frequency(new_strategy))

\* lines 54-56: the rebuild deadline after an evaluation
RescheduleRebuild(was_updated, now, old_deadline, new_strategy) ==
    IF was_updated THEN After(now, rebuild_frequency(new_strategy)) ELSE old_deadline

\* lines 18-23: the four deadlines at the start of the task
SupStart ==
    /\ sup.pc = "off"
    /\ sup' = [pc |-> "loop", shutdown |-> FALSE, failed |-> FALSE, clock |-> 0,
               updates |-> 0, health_checks |-> 0,
               now |-> 0, next_update |-> Some(0), next_health_check |-> Some(0),
               next_strategy_eval |-> Some(0),
               selector_rebuild |-> After(0, rebuild_frequency(strategy))]
    /\ UNCHANGED <<backends, weight, health, conns, counter, latency, config,
                   strategy, selector, cursor, sel, ghost, req>>

\* a top of the loop that does not look at the shutdown watch
SupUpdateUnwatched ==
    /\ sup.pc = "loop"
    /\ IF Due(sup.next_update, sup.now)
       THEN \E err \in BOOLEAN :
                sup' = [sup EXCEPT !.pc = "health", !.failed = err,
                                   !.updates = Counted(@),
                                   !.next_update =
                                       After(sup.now, config.update_frequency)]
       ELSE sup' = [sup EXCEPT !.pc = "health"]
    /\ UNCHANGED <<backends, weight, health, conns, counter, latency, config,
                   strategy, selector, cursor, sel, ghost, req>>

\* an update whose error ends the task, as self.lb.update().await? would
SupUpdateAborting ==
    /\ sup.pc = "loop"
    /\ IF sup.shutdown
       THEN sup' = [sup EXCEPT !.pc = "stopped"]
       ELSE IF Due(sup.next_update, sup.now)
       THEN \E err \in BOOLEAN :
                sup' = IF err
                       THEN [sup EXCEPT !.pc = "stopped", !.failed = TRUE]
                       ELSE [sup EXCEPT !.pc = "health",
                                        !.updates = Counted(@),
                                        !.next_update =
                                            After(sup.now, config.update_frequency)]
       ELSE sup' = [sup EXCEPT !.pc = "health"]
    /\ UNCHANGED <<backends, weight, health, conns, counter, latency, config,
                   strategy, selector, cursor, sel, ghost, req>>

\* lines 26-35: the shutdown check and the discovery update.  The discovery is
\* static: an update that succeeds finds the same backends and leaves the
\* snapshot and the selector alone; one that fails (err) returns before it
\* publishes anything and is logged (sup.failed, until the end of the tick).
\* next_update is set after either.
SupUpdate ==
    /\ sup.pc = "loop"
    /\ IF sup.shutdown
       THEN sup' = [sup EXCEPT !.pc = "stopped"]
       ELSE IF Due(sup.next_update, sup.now)
       THEN \E err \in BOOLEAN :
                sup' = [sup EXCEPT !.pc = "health", !.failed = err,
                                   !.updates = Counted(@),
                                   !.next_update =
                                       After(sup.now, config.update_frequency)]
       ELSE sup' = [sup EXCEPT !.pc = "health"]
    /\ UNCHANGED <<backends, weight, health, conns, counter, latency, config,
                   strategy, selector, cursor, sel, ghost, req>>

\* lines 37-43: the health check, each probe succeeding or failing
SupHealthCheck ==
    /\ sup.pc = "health"
    /\ IF Due(sup.next_health_check, sup.now)
       THEN /\ health' \in {[b \in backends |-> HealthOf(h[b])] :
                                h \in [backends -> BOOLEAN]}
            /\ sup' = [sup EXCEPT !.pc = "eval",
                          !.health_checks = Counted(@),
                          !.next_health_check =
                              After(sup.now, config.health_check_frequency)]
       ELSE /\ sup' = [sup EXCEPT !.pc = "eval"]
            /\ UNCHANGED health
    /\ UNCHANGED <<backends, weight, conns, counter, latency, config, strategy,
                   selector, cursor, sel, ghost, req>>

\* lines 45-57: the strategy evaluation
SupEvaluate ==
    /\ sup.pc = "eval"
    /\ IF Due(sup.next_strategy_eval, sup.now)
       THEN /\ EvaluateAndUpdate
            /\ sup' = [sup EXCEPT
                          !.pc = "rebuild",
                          !.next_strategy_eval =
                              Some(sup.now + EvaluateStrategyFrequencyMs),
                          !.selector_rebuild =
                              RescheduleRebuild(strategy' # strategy, sup.now, @,
                                                strategy')]
       ELSE /\ sup' = [sup EXCEPT !.pc = "rebuild"]
            /\ UNCHANGED <<strategy, selector, cursor, ghost>>
    /\ UNCHANGED <<backends, weight, health, conns, counter, latency, config,
                   sel, req>>

\* LoadBalancer::rebuild_selector: the current strategy builds from the snapshot
RebuildSelector ==
    /\ selector' \in build_backend_selector(strategy, backends, weight, conns,
                                            latency)
    /\ cursor' = 0
    /\ ghost' = [op |-> "rebuild_selector", age |-> 0]

\* lines 59-62: the periodic rebuild
SupRebuild ==
    /\ sup.pc = "rebuild"
    /\ IF Due(sup.selector_rebuild, sup.now)
       THEN /\ RebuildSelector
            /\ sup' = [sup EXCEPT
                          !.pc = "sleep",
                          !.selector_rebuild =
                              After(sup.now, rebuild_frequency(strategy))]
       ELSE /\ sup' = [sup EXCEPT !.pc = "sleep"]
            /\ UNCHANGED <<selector, cursor, ghost>>
    /\ UNCHANGED <<backends, weight, health, conns, counter, latency, config,
                   strategy, sel, req>>

\* lines 64-77: sleep_until(to_wake) returns; now = Instant::now()
SupWake ==
    /\ sup.pc = "sleep"
    /\ Due(ToWake(sup), sup.clock)
    /\ sup' = [sup EXCEPT !.pc = "loop", !.failed = FALSE, !.now = sup.clock]
    /\ UNCHANGED <<backends, weight, health, conns, counter, latency, config,
                   strategy, selector, cursor, sel, ghost, req>>

\* the shutdown watch turns true
Shutdown ==
    /\ sup.pc \notin {"off", "stopped"}
    /\ ~sup.shutdown
    /\ sup' = [sup EXCEPT !.shutdown = TRUE]
    /\ UNCHANGED <<backends, weight, health, conns, counter, latency, config,
                   strategy, selector, cursor, sel, ghost, req>>

\* Time passes.  ghost.age is the time since the published selector was built
\* (it stops growing once past the rebuild period).
Tick ==
    /\ sup.pc = "sleep"
    /\ ~Due(ToWake(sup), sup.clock)
    /\ sup.clock + TickMs <= MaxTime
    /\ sup' = [sup EXCEPT !.clock = @ + TickMs]
    /\ ghost' = [ghost EXCEPT
                    !.age = IF @ > RebuildFrequencyMs THEN @ ELSE @ + TickMs]
    /\ UNCHANGED <<backends, weight, health, conns, counter, latency, config,
                   strategy, selector, cursor, sel, req>>

\* a control-plane request served while the supervisor runs
SetStrategyWhileRunning(new_strategy) ==
    /\ sup.pc # "off"
    /\ UpdateStrategy(new_strategy)
    /\ ghost' = [op |-> "update_strategy", age |-> AgeAfterUpdate(new_strategy)]
    /\ UNCHANGED <<backends, weight, health, conns, counter, latency, config,
                   sel, sup, req>>

-----------------------------------------------------------------------------
(* SpecSupervisor: the supervisor over two backends whose metrics are      *)
(* quiet, diverge in connections or diverge in latency, started with a     *)
(* static or a dynamic strategy, health checks every second and no         *)
(* periodic discovery, while the control plane installs strategies.        *)

SupervisorSnapshots ==
    {[conns |-> <<Some(5), Some(10)>>, latency |-> <<Some(10), Some(12)>>],
     [conns |-> <<Some(900), Some(1200)>>, latency |-> <<Some(10), Some(12)>>],
     [conns |-> <<Some(5), Some(10)>>, latency |-> <<Some(10), Some(50)>>]}

SupervisorStarts == {"RoundRobin", "FewestConnections"}

ControlPlaneInstalls == {"Random", "FewestConnections", "FastestServer"}

InitSupervisor ==
    \E m \in SupervisorSnapshots, start \in SupervisorStarts :
        /\ backends = {1, 2}
        /\ conns = m.conns
        /\ latency = m.latency
        /\ counter = [b \in backends |-> CounterOf(conns[b])]
        /\ config = Options(start, None, Some(HealthCheckFrequencyMs))
        /\ strategy = start
        /\ weight = [b \in backends |-> 1]
        /\ health = [b \in backends |-> DefaultHealth]
        /\ selector \in build_backend_selector(start, backends, weight, conns,
                                                latency)
        /\ cursor = 0
        /\ sel = IdleSel
        /\ sup = IdleSup
        /\ ghost = NoGhost
        /\ req = NoReq

NextSupervisor ==
    \/ SupStart
    \/ SupUpdate
    \/ SupHealthCheck
    \/ SupEvaluate
    \/ SupRebuild
    \/ SupWake
    \/ Shutdown
    \/ Tick
    \/ \E s \in ControlPlaneInstalls : SetStrategyWhileRunning(s)

SpecSupervisor == InitSupervisor /\ [][NextSupervisor]_vars

\* C3 (periodic rebuild of dynamic selectors): while the supervisor runs, no
\* shutdown is requested and the current strategy is FewestConnections or
\* FastestServer - chosen by the engine or installed by the control plane -
\* the published selector is never older than the rebuild period of 200 ms:
\* the supervisor has rebuilt it within every such period.
C3_PeriodicRebuild ==
    (sup.pc \notin {"off", "stopped"} /\ ~sup.shutdown /\ strategy \in Dynamic)
    => ghost.age <= RebuildFrequencyMs

\* C3 case: the control plane installed a dynamic strategy over a static one
\* and a rebuild period has passed since
C3_Witness ==
    /\ sup.pc = "sleep"
    /\ ~sup.shutdown
    /\ strategy \in Dynamic
    /\ sup.selector_rebuild = None
    /\ ghost.op = "update_strategy"
    /\ ghost.age >= RebuildFrequencyMs

-----------------------------------------------------------------------------
(* SpecMetrics: calls on the metrics handles of the backends, in any       *)
(* order.  ghost counts, per backend, what a counter that stops at zero    *)
(* would hold.                                                             *)

LatencySamples == {8, 24}

\* Metrics::increment_active_connections on the handle of b
IncrementActiveConnections(b) ==
    /\ ghost.calls < MaxCalls
    /\ counter' = [counter EXCEPT ![b] = increment_active_connections(@)]
    /\ ghost' = [ghost EXCEPT !.calls = @ + 1, !.op = "increment",
                              !.saturating[b] = @ + 1]
    /\ UNCHANGED <<backends, weight, health, conns, latency, config, strategy,
                   selector, cursor, sel, sup, req>>

\* Metrics::decrement_active_connections on the handle of b
DecrementActiveConnections(b) ==
    /\ ghost.calls < MaxCalls
    /\ counter' = [counter EXCEPT ![b] = decrement_active_connections(@)]
    /\ ghost' = [ghost EXCEPT !.calls = @ + 1, !.op = "decrement",
                              !.saturating[b] = IF @ = 0 THEN 0 ELSE @ - 1]
    /\ UNCHANGED <<backends, weight, health, conns, latency, config, strategy,
                   selector, cursor, sel, sup, req>>

\* Metrics::record_latency on the handle of b
RecordLatency(b, latency_ms) ==
    /\ ghost.calls < MaxCalls
    /\ latency' = [latency EXCEPT
                      ![b] = record_latency(@, latency_ms, SmoothingFactor10)]
    /\ ghost' = [ghost EXCEPT !.calls = @ + 1, !.op = "record_latency"]
    /\ UNCHANGED <<backends, weight, health, conns, counter, config, strategy,
                   selector, cursor, sel, sup, req>>

InitMetrics ==
    /\ backends = 1..MaxBackends
    /\ conns = [b \in backends |-> Some(0)]
    /\ counter = [b \in backends |-> CounterOf(conns[b])]
    /\ latency = [b \in backends |-> Some(0)]
    /\ config = Options(AdaptiveDefault, None, None)
    /\ strategy = AdaptiveDefault
    /\ weight = [b \in backends |-> 1]
    /\ health = [b \in backends |-> DefaultHealth]
    /\ selector = WeightedSelectorNew(AdaptiveDefault, backends, weight)
    /\ cursor = 0
    /\ sel = IdleSel
    /\ sup = IdleSup
    /\ ghost = [op |-> "none", age |-> 0, calls |-> 0,
                saturating |-> [b \in backends |-> 0]]
    /\ req = NoReq

NextMetrics ==
    \/ \E b \in backends : IncrementActiveConnections(b)
    \/ \E b \in backends : DecrementActiveConnections(b)
    \/ \E b \in backends, x \in LatencySamples : RecordLatency(b, x)

SpecMetrics == InitMetrics /\ [][NextMetrics]_vars

\* C9 (the counter saturates at zero): after any sequence of increments and
\* decrements every counter holds what a counter that stops at zero holds: a
\* decrement at 0 leaves 0, and the count is never a wrapped-around value.
C9_SaturatesAtZero ==
    \A b \in backends : counter[b] = Some(ToLeBytes(ghost.saturating[b], 1))

\* C9 case: a backend's counter was decremented while it held 0
C9_Witness ==
    /\ ghost.op = "decrement"
    /\ \E b \in backends : /\ ghost.saturating[b] = 0
                           /\ counter[b] # Some(ToLeBytes(0, 1))

-----------------------------------------------------------------------------
(* The proxy's hooks.  A request is a record: pc (which hook comes next),  *)
(* backend and upstream_start (the ConnectionCTX), retries, and stream:    *)
(* the backend the request holds an open upstream stream to, if any.  The  *)
(* framework calls upstream_peer, then connected_to_upstream once the      *)
(* connection is established or reused, the request and response filters,  *)
(* and upstream_stream_ended when the stream ends; a failed connect or a   *)
(* failed stream may be retried from upstream_peer.                        *)

\* ProxyHttp::new_ctx
new_ctx ==
    [pc |-> "upstream_peer", backend |-> None, upstream_start |-> FALSE,
     retries |-> 0, stream |-> None]

\* what select(&[]) can return: None or a ready backend
SelectOutcomes == {None} \cup {Some(b) : b \in {x \in backends : ready(x)}}

\* the request is given up, or tried again from upstream_peer
AfterFailure(r) ==
    {[r EXCEPT !.pc = "done"]}
        \cup (IF r.retries < MaxRetries
              THEN {[r EXCEPT !.pc = "upstream_peer", !.retries = @ + 1]}
              ELSE {})

\* Proxy::upstream_peer
UpstreamPeer(i, outcome) ==
    /\ req[i].pc = "upstream_peer"
    /\ outcome \in SelectOutcomes
    /\ IF outcome = None
       THEN \E r \in AfterFailure(req[i]) : req' = [req EXCEPT ![i] = r]
       ELSE req' = [req EXCEPT ![i].backend = outcome, ![i].pc = "connect"]
    /\ UNCHANGED <<backends, weight, health, conns, counter, latency, config,
                   strategy, selector, cursor, sel, sup, ghost>>

\* the connection to the peer could not be established
ConnectFailed(i) ==
    /\ req[i].pc = "connect"
    /\ \E r \in AfterFailure(req[i]) : req' = [req EXCEPT ![i] = r]
    /\ UNCHANGED <<backends, weight, health, conns, counter, latency, config,
                   strategy, selector, cursor, sel, sup, ghost>>

\* Proxy::connected_to_upstream
ConnectedToUpstream(i) ==
    /\ req[i].pc = "connect"
    /\ counter' = IF req[i].backend = None THEN counter
                  ELSE [counter EXCEPT ![Val(req[i].backend)] =
                                           increment_active_connections(@)]
    /\ req' = [req EXCEPT ![i].pc = "request_filter",
                          ![i].stream = req[i].backend]
    /\ UNCHANGED <<backends, weight, health, conns, latency, config, strategy,
                   selector, cursor, sel, sup, ghost>>

\* Proxy::upstream_request_filter
UpstreamRequestFilter(i) ==
    /\ req[i].pc = "request_filter"
    /\ req' = [req EXCEPT ![i].upstream_start = TRUE, ![i].pc = "response_filter"]
    /\ UNCHANGED <<backends, weight, health, conns, counter, latency, config,
                   strategy, selector, cursor, sel, sup, ghost>>

\* Proxy::upstream_response_filter
UpstreamResponseFilter(i, elapsed_ms) ==
    /\ req[i].pc = "response_filter"
    /\ latency' = IF req[i].upstream_start /\ req[i].backend # None
                  THEN [latency EXCEPT ![Val(req[i].backend)] =
                            record_latency(@, elapsed_ms, SmoothingFactor10)]
                  ELSE latency
    /\ req' = [req EXCEPT ![i].pc = "responded"]
    /\ UNCHANGED <<backends, weight, health, conns, counter, config, strategy,
                   selector, cursor, sel, sup, ghost>>

\* Proxy::upstream_stream_ended: the stream ends, after the response or on an
\* error before it (which may be retried)
UpstreamStreamEnded(i) ==
    /\ req[i].pc \in {"request_filter", "response_filter", "responded"}
    /\ counter' = IF req[i].backend = None THEN counter
                  ELSE [counter EXCEPT ![Val(req[i].backend)] =
                                           decrement_active_connections(@)]
    /\ LET ended == [req[i] EXCEPT !.stream = None]
       IN  IF req[i].pc = "responded"
           THEN req' = [req EXCEPT ![i] = [ended EXCEPT !.pc = "done"]]
           ELSE \E r \in AfterFailure(ended) : req' = [req EXCEPT ![i] = r]
    /\ UNCHANGED <<backends, weight, health, conns, latency, config, strategy,
                   selector, cursor, sel, sup, ghost>>

-----------------------------------------------------------------------------
(* SpecProxy: MaxRequests requests over two backends with fresh metrics,   *)
(* their hooks interleaved in any order, each request retried at most      *)
(* MaxRetries times.                                                       *)

InitProxy ==
    /\ backends = {1, 2}
    /\ conns = [b \in backends |-> Some(0)]
    /\ counter = [b \in backends |-> CounterOf(conns[b])]
    /\ latency = [b \in backends |-> Some(0)]
    /\ config = Options(AdaptiveDefault, None, None)
    /\ strategy = AdaptiveDefault
    /\ weight = [b \in backends |-> 1]
    /\ health = [b \in backends |-> DefaultHealth]
    /\ selector = WeightedSelectorNew(AdaptiveDefault, backends, weight)
    /\ cursor = 0
    /\ sel = IdleSel
    /\ sup = IdleSup
    /\ ghost = NoGhost
    /\ req = [i \in 1..MaxRequests |-> new_ctx]

NextProxy ==
    \/ \E i \in 1..MaxRequests, o \in SelectOutcomes : UpstreamPeer(i, o)
    \/ \E i \in 1..MaxRequests : ConnectFailed(i)
    \/ \E i \in 1..MaxRequests : ConnectedToUpstream(i)
    \/ \E i \in 1..MaxRequests : UpstreamRequestFilter(i)
    \/ \E i \in 1..MaxRequests, x \in LatencySamples : UpstreamResponseFilter(i, x)
    \/ \E i \in 1..MaxRequests : UpstreamStreamEnded(i)

SpecProxy == InitProxy /\ [][NextProxy]_vars

\* the requests that hold an open upstream stream to b
OpenStreams(b) == {i \in 1..MaxRequests : req[i].stream = Some(b)}

\* C10 (counter soundness): in every reachable state of the interleaved
\* request lifecycles, failed connects and retries included, each backend's
\* active-connection count equals the number of upstream streams open to it
\* (so the decrements never exceed the increments).
C10_CounterSoundness ==
    \A b \in backends : counter[b] = Some(ToLeBytes(Cardinality(OpenStreams(b)), 1))

\* C10 case: two requests hold streams to the same backend at once, one of
\* them on a retry
C10_Witness ==
    \E b \in backends :
        /\ Cardinality(OpenStreams(b)) = 2
        /\ \E i \in OpenStreams(b) : req[i].retries > 0
        /\ counter[b] = Some(ToLeBytes(2, 1))

-----------------------------------------------------------------------------
(* The budget of UniqueIterator, under SpecSelect.                          *)

\* a select_with call that walked a selector whose iterator yields its only
\* backend forever, with an accept function that takes none and a budget >= 1,
\* and has ended
SameBackendForever ==
    /\ sel.pc = "done"
    /\ sel.accept = "none"
    /\ sel.selector # None
    /\ sel.selector.kind \in Weighted \cup {"Consistent"}
    /\ Len(sel.selector.backends) = 1
    /\ sel.u.max_iterations >= 1

\* C11 (unique-iterator bound): over an inner iterator that yields the same
\* backend forever, with budget n >= 1, get_next returns that backend once,
\* then None, and by then the inner iterator was advanced exactly n times.
C11_UniqueIteratorBound ==
    SameBackendForever =>
        /\ sel.out = sel.selector.backends
        /\ sel.inner = sel.u.max_iterations

\* C11 case: budget MaxBudget over such an iterator; the backend came once,
\* then None, after one inner step more than the budget
C11_Witness ==
    /\ SameBackendForever
    /\ sel.u.max_iterations = MaxBudget
    /\ sel.out = sel.selector.backends
    /\ sel.result = None
    /\ sel.inner = MaxBudget + 1

-----------------------------------------------------------------------------
(* SpecUnique: a UniqueIterator over a TestIter (the iterator of the tests *)
(* of utils.rs: a fixed sequence of backends, then None for ever), for     *)
(* every sequence of at most MaxItems backends and every budget, with      *)
(* get_next called again and again.  sel holds the TestIter (seq, idx),    *)
(* the UniqueIterator (u) and out: what each get_next call returned.       *)

\* TestIter::next: self.seq.get(idx), and idx += 1
TestIterNext(seq, idx) ==
    [item |-> IF idx < Len(seq) THEN Some(seq[idx + 1]) ELSE None,
     idx |-> idx + 1]

\* UniqueIterator::get_next over a TestIter: the while loop, up to its return
RECURSIVE get_next(_, _, _)
get_next(u, seq, idx) ==
    LET n == TestIterNext(seq, idx)
        r == UniqueIteratorStep(u, n.item)
    IN  IF r.ret = "Loop" THEN get_next(r.u, seq, n.idx)
        ELSE [u |-> r.u, idx |-> n.idx,
              ret |-> IF r.ret = "Some" THEN n.item ELSE None]

\* one call of get_next
GetNext ==
    /\ sel.pc = "unique"
    /\ Len(sel.out) < MaxCalls
    /\ LET r == get_next(sel.u, sel.seq, sel.idx)
       IN  sel' = [sel EXCEPT !.u = r.u, !.idx = r.idx, !.out = Append(@, r.ret)]
    /\ UNCHANGED <<backends, weight, health, conns, counter, latency, config,
                   strategy, selector, cursor, sup, ghost, req>>

\* the sequences of at most n elements of S
SeqsUpTo(S, n) == UNION {[1..k -> S] : k \in 0..n}

InitUnique ==
    /\ backends = 1..MaxBackends
    /\ conns = [b \in backends |-> Some(0)]
    /\ counter = [b \in backends |-> CounterOf(conns[b])]
    /\ latency = [b \in backends |-> Some(0)]
    /\ config = Options(AdaptiveDefault, None, None)
    /\ strategy = AdaptiveDefault
    /\ weight = [b \in backends |-> 1]
    /\ health = [b \in backends |-> DefaultHealth]
    /\ selector = WeightedSelectorNew(AdaptiveDefault, backends, weight)
    /\ cursor = 0
    /\ \E seq \in SeqsUpTo(backends, MaxItems), m \in 0..MaxBudget :
         sel = [pc |-> "unique", seq |-> seq, idx |-> 0,
                u |-> [seen |-> {}, steps |-> 0, max_iterations |-> m],
                out |-> <<>>]
    /\ sup = IdleSup
    /\ ghost = NoGhost
    /\ req = NoReq

NextUnique == GetNext

SpecUnique == InitUnique /\ [][NextUnique]_vars

\* the first occurrences, by hash_key, of the backends of s, in the order of s
RECURSIVE FirstOccurrences(_)
FirstOccurrences(s) ==
    IF s = <<>> THEN <<>>
    ELSE LET front == FirstOccurrences(SubSeq(s, 1, Len(s) - 1))
             last == s[Len(s)]
         IN  IF \E i \in 1..Len(front) : hash_key(front[i]) = hash_key(last)
             THEN front ELSE Append(front, last)

\* what the get_next calls of the state are to return, one after the other:
\* the first occurrences among the first max_iterations items
ExpectedResults ==
    LET m == sel.u.max_iterations
    IN  FirstOccurrences(SubSeq(sel.seq, 1, IF m < Len(sel.seq) THEN m ELSE Len(sel.seq)))

\* C12 (UniqueIterator result): the k-th get_next returns the k-th first
\* occurrence among the first max_iterations inner items, and None once these
\* are used up: no hash_key twice, at most max_iterations backends, and None
\* on every call after the first None.
C12_UniqueIteratorResult ==
    sel.pc = "unique" =>
        \A k \in 1..Len(sel.out) :
            sel.out[k] = IF k <= Len(ExpectedResults)
                         THEN Some(ExpectedResults[k]) ELSE None

\* C12 case: duplicates were skipped, the budget cut the inner sequence before
\* a backend not yet seen, and get_next was called twice more
C12_Witness ==
    /\ sel.pc = "unique"
    /\ sel.seq = <<1, 1, 2, 3>>
    /\ sel.u.max_iterations = 3
    /\ sel.out = <<Some(1), Some(2), None, None>>

-----------------------------------------------------------------------------
(* SpecRoundRobin: MaxThreads request threads call select concurrently on  *)
(* one RoundRobin selector that is not rebuilt.  Each step of a thread     *)
(* makes at most one access to the shared cursor (algorithm.next is one    *)
(* atomic read-and-increment), so the steps interleave as the accesses do. *)
(* sel holds one record per thread: the key, the selector it loaded (and   *)
(* rebuilt: whether that selector is one published by a rebuild), the      *)
(* iterator (it), the UniqueIterator (u), start (the seed iter obtained),  *)
(* pos (the place of that call in the log) and picks (what next() yielded, *)
(* in order).  For a RoundRobin                                            *)
(* selector ghost.log lists the accesses to the cursor (who, for what,     *)
(* which value) and ghost.done counts the selects that returned each       *)
(* backend.                                                                *)

IdleThread ==
    [pc |-> "idle", key |-> <<>>, selector |-> None, rebuilt |-> FALSE,
     it |-> None, u |-> None, start |-> 0, pos |-> 0, picks |-> <<>>,
     result |-> None]

\* select_with, first line: selector.load(), selection.iter(key) and
\* UniqueIterator::new; the iter of a RoundRobin selector takes its seed from
\* the cursor
ThreadIter(t, key) ==
    /\ sel[t].pc = "idle"
    /\ selector.kind = "RoundRobin" => cursor < MaxCursor
    /\ \E alg \in AlgNext(selector.kind, key, Len(selector.weighted)) :
         LET it == iter(selector, key, alg)
         IN  /\ sel' = [sel EXCEPT ![t] =
                          [IdleThread EXCEPT
                              !.pc = "iter", !.key = key, !.selector = selector,
                              !.rebuilt = (ghost.op = "rebuild_selector"),
                              !.it = it, !.start = it.index,
                              !.pos = Len(ghost.log) + 1,
                              !.u = [seen |-> {}, steps |-> 0,
                                     max_iterations |-> MaxBudget]]]
             /\ ghost' = [ghost EXCEPT
                             !.log = IF selector.kind = "RoundRobin"
                                     THEN Append(@, [t |-> t, kind |-> "iter",
                                                     value |-> it.index])
                                     ELSE @]
    /\ cursor' = IF selector.kind = "RoundRobin" THEN cursor + 1 ELSE cursor
    /\ UNCHANGED <<backends, weight, health, conns, counter, latency, config,
                   strategy, selector, sup, req>>

\* select_with: one turn of the loop of get_next: next(), which on a fallback
\* asks the algorithm again (RoundRobin: takes a value from the cursor), the
\* budget and duplicate checks and, for a fresh backend, accept
ThreadNext(t) ==
    /\ sel[t].pc = "iter"
    /\ LET r == sel[t]
           s == r.selector
           fb == IsFallback(s, r.it)
           rr == fb /\ s.kind = "RoundRobin"
       IN
       /\ rr => cursor < MaxCursor
       /\ cursor' = IF rr THEN cursor + 1 ELSE cursor
       /\ ghost' = IF rr
                   THEN [ghost EXCEPT !.log = Append(@, [t |-> t, kind |-> "fallback",
                                                         value |-> cursor])]
                   ELSE ghost
       /\ \E alg \in (IF fb THEN AlgNext(s.kind, r.it.index, Len(s.backends))
                      ELSE {0}) :
            LET n == AdaptiveIterNext(s, r.it, alg)
                q == UniqueIteratorStep(r.u, n.item)
                base == [r EXCEPT !.it = n.it, !.u = q.u,
                                  !.picks = Append(@, n.item)]
            IN  sel' = [sel EXCEPT ![t] =
                  CASE q.ret = "None" -> [base EXCEPT !.pc = "done"]
                    [] q.ret = "Loop" -> base
                    [] q.ret = "Some" ->
                         IF default_accept(Val(n.item), ready(Val(n.item)))
                         THEN [base EXCEPT !.pc = "done", !.result = n.item]
                         ELSE base]
    /\ UNCHANGED <<backends, weight, health, conns, counter, latency, config,
                   strategy, selector, sup, req>>

\* select has returned to its caller; its iterator is dropped
ThreadReturn(t) ==
    /\ sel[t].pc = "done"
    /\ sel' = [sel EXCEPT ![t] = IdleThread]
    /\ ghost' = CASE sel[t].selector.kind # "RoundRobin" -> ghost
                  [] sel[t].result = None -> [ghost EXCEPT !.none = @ + 1]
                  [] OTHER -> [ghost EXCEPT !.done[Val(sel[t].result)] = @ + 1]
    /\ UNCHANGED <<backends, weight, health, conns, counter, latency, config,
                   strategy, selector, cursor, sup, req>>

InitRoundRobin ==
    \E n \in 1..MaxBackends :
      \E w \in WeightProfiles(n), h \in [1..n -> BOOLEAN] :
        /\ backends = 1..n
        /\ weight = w
        /\ health = [b \in backends |-> HealthOf(h[b])]
        /\ conns = [b \in backends |-> Some(0)]
        /\ counter = [b \in backends |-> CounterOf(conns[b])]
        /\ latency = [b \in backends |-> Some(0)]
        /\ config = Options("RoundRobin", None, None)
        /\ strategy = "RoundRobin"
        /\ selector = WeightedSelectorNew("RoundRobin", backends, weight)
        /\ cursor = 0
        /\ sel = [t \in 1..MaxThreads |-> IdleThread]
        /\ sup = IdleSup
        /\ ghost = [op |-> "none", age |-> 0, log |-> <<>>,
                    none |-> 0, done |-> [b \in backends |-> 0]]
        /\ req = NoReq

NextRoundRobin ==
    \/ \E t \in 1..MaxThreads : ThreadIter(t, <<>>)
    \/ \E t \in 1..MaxThreads : ThreadNext(t)
    \/ \E t \in 1..MaxThreads : ThreadReturn(t)

SpecRoundRobin == InitRoundRobin /\ [][NextRoundRobin]_vars

\* the seeds the iter() calls obtained so far, in the order of the calls
StartingIndices(log) ==
    LET at == {i \in 1..Len(log) : log[i].kind = "iter"}
    IN  [i \in at |-> log[i].value]

\* C13 (round-robin cursor): the cursor shared by the iterators of one
\* RoundRobin selector never decreases, and any two iter() calls on it, however
\* the concurrent selects interleave, obtain distinct starting indices.
C13_RoundRobinCursor ==
    [][/\ cursor' >= cursor
       /\ \A t \in 1..MaxThreads :
            (sel[t].pc = "idle" /\ sel'[t].pc = "iter") =>
                \A i \in DOMAIN StartingIndices(ghost.log) :
                    StartingIndices(ghost.log)[i] # sel'[t].start]_vars

\* C13 case: two selects overlap, both past iter()
C13_Witness ==
    /\ sel[1].pc = "iter"
    /\ sel[2].pc = "iter"
    /\ sel[1].start # sel[2].start
    /\ cursor >= 2

\* the sum of f over the set S
RECURSIVE SumOver(_, _)
SumOver(f, S) ==
    IF S = {} THEN 0
    ELSE LET x == CHOOSE y \in S : TRUE IN f[x] + SumOver(f, S \ {x})

\* no select is in progress
AllReturned == \A t \in 1..MaxThreads : sel[t].pc = "idle"

\* C14 (even round-robin): with N backends of weight 1, all ready, strategy
\* RoundRobin and the selector left alone, N*k selects that have all returned,
\* run one after the other or interleaved, returned each backend k times.
C14_EvenRoundRobin ==
    LET N == Cardinality(backends)
        total == SumOver(ghost.done, backends) + ghost.none
    IN  (/\ \A b \in backends : weight[b] = 1 /\ ready(b)
         /\ AllReturned
         /\ total % N = 0)
        => \A b \in backends : ghost.done[b] = total \div N

\* C14 case: two backends, four selects by two threads whose accesses to the
\* cursor interleaved, each backend returned twice
C14_Witness ==
    /\ Cardinality(backends) = 2
    /\ \A b \in backends : weight[b] = 1 /\ ready(b)
    /\ AllReturned
    /\ \A b \in backends : ghost.done[b] = 2
    /\ Len(ghost.log) = 4
    /\ ghost.log[1].t # ghost.log[2].t
    /\ ghost.log[3].t = 2 /\ ghost.log[4].t = 1

\* what next() is to yield on its k-th call, for an iterator with seed start:
\* the weighted pick first, then the rotation from start over the unique list
RotationPick(start, k) ==
    IF k = 1
    THEN selector.backends[selector.weighted[(start % Len(selector.weighted)) + 1] + 1]
    ELSE selector.backends[((start + (k - 1)) % Len(selector.backends)) + 1]

\* C15 (round-robin iteration): an iterator that obtained start offset i yields
\* backends[expanded[i mod N_w]] first and backends[(i+k) mod N_b] on its k-th
\* fallback, whatever other requests do on the same selector in between.
C15_RoundRobinRotation ==
    \A t \in 1..MaxThreads :
        \A k \in 1..Len(sel[t].picks) :
            sel[t].picks[k] = Some(RotationPick(sel[t].start, k))

\* C15 case: another thread took a value of the cursor between the first pick
\* and the fallback of an iterator, and the fallback left the rotation
C15_Witness ==
    \E t \in 1..MaxThreads :
        /\ Len(sel[t].picks) >= 2
        /\ sel[t].pos + 2 <= Len(ghost.log)
        /\ ghost.log[sel[t].pos + 1].t # t
        /\ ghost.log[sel[t].pos + 2] = [t |-> t, kind |-> "fallback",
                                        value |-> sel[t].start + 2]
        /\ sel[t].picks[2] # Some(RotationPick(sel[t].start, 2))

\* the accesses i+1 .. j-1 of the log are fallbacks of the iterator created by
\* access i, and access j creates the next iterator
CreatedRightAfter(i, j) ==
    /\ i < j
    /\ ghost.log[i].kind = "iter"
    /\ ghost.log[j].kind = "iter"
    /\ \A k \in (i + 1)..(j - 1) :
          ghost.log[k].kind = "fallback" /\ ghost.log[k].t = ghost.log[i].t

\* C16 (fallbacks consume the shared cursor): an iterator created after the
\* previous iterator, seeded with start, made its first pick and f fallback
\* calls, makes its weighted first pick at position (start + 1 + f) mod N_w of
\* the expanded array.
C16_FallbacksConsumeCursor ==
    \A t \in 1..MaxThreads :
        \A i \in 1..Len(ghost.log) :
            (Len(sel[t].picks) >= 1 /\ CreatedRightAfter(i, sel[t].pos)) =>
                LET f == sel[t].pos - i - 1
                    at == (ghost.log[i].value + 1 + f) % Len(selector.weighted)
                IN  sel[t].picks[1] =
                        Some(selector.backends[selector.weighted[at + 1] + 1])

\* C16 case: an iterator made its first pick and two fallbacks, the next
\* iterator its first pick, three positions later, on a weighted list that is
\* longer than the unique one
C16_Witness ==
    \E t \in 1..MaxThreads :
        \E i \in 1..Len(ghost.log) :
            /\ Len(sel[t].picks) >= 1
            /\ CreatedRightAfter(i, sel[t].pos)
            /\ sel[t].pos = i + 3
            /\ sel[t].start = ghost.log[i].value + 3
            /\ Len(selector.weighted) > Len(selector.backends)

-----------------------------------------------------------------------------
(* SpecHash: MaxThreads request threads call select with keys of Keys on   *)
(* the selector of a hash strategy (FNVHash, Consistent), while the        *)
(* selector is rebuilt from the same set of backends.                      *)

HashStrategies == {"FNVHash", "Consistent"}

\* the keys of the requests: b"a", b"test"
HashKeys == {<<97>>, <<116, 101, 115, 116>>}

\* the readiness of n backends: all ready, or none (every select then walks
\* its iterator to the end of the budget)
HashHealth(n) == {[b \in 1..n |-> r] : r \in BOOLEAN}

\* a rebuild from a set that iterates in no fixed order (a HashSet and not the
\* BTreeSet): the Box<[Backend]> of the new selector is in any order
ThreadRebuildUnordered ==
    /\ selector' \in {[s EXCEPT !.backends = p] :
                        s \in build_backend_selector(strategy, backends, weight,
                                                      conns, latency),
                        p \in Perms(backends)}
    /\ cursor' = 0
    /\ ghost' = [ghost EXCEPT !.op = "rebuild_selector"]
    /\ ghost.op # "rebuild_selector"
    /\ UNCHANGED <<backends, weight, health, conns, counter, latency, config,
                   strategy, sel, sup, req>>

\* rebuild_selector while requests are served; the backends are the same
ThreadRebuild ==
    /\ selector' \in build_backend_selector(strategy, backends, weight, conns,
                                            latency)
    /\ cursor' = 0
    /\ ghost' = [ghost EXCEPT !.op = "rebuild_selector"]
    /\ ghost.op # "rebuild_selector"
    /\ UNCHANGED <<backends, weight, health, conns, counter, latency, config,
                   strategy, sel, sup, req>>

InitHash ==
    \E n \in 1..MaxBackends, kind \in HashStrategies :
      \E w \in WeightProfiles(n), h \in HashHealth(n) :
        /\ backends = 1..n
        /\ weight = w
        /\ health = [b \in backends |-> HealthOf(h[b])]
        /\ conns = [b \in backends |-> Some(0)]
        /\ counter = [b \in backends |-> CounterOf(conns[b])]
        /\ latency = [b \in backends |-> Some(0)]
        /\ config = Options(kind, None, None)
        /\ strategy = kind
        /\ selector \in build_backend_selector(kind, backends, weight, conns,
                                                latency)
        /\ cursor = 0
        /\ sel = [t \in 1..MaxThreads |-> IdleThread]
        /\ sup = IdleSup
        /\ ghost = [op |-> "none", age |-> 0, log |-> <<>>,
                    none |-> 0, done |-> [b \in backends |-> 0]]
        /\ req = NoReq

NextHash ==
    \/ \E t \in 1..MaxThreads, key \in HashKeys : ThreadIter(t, key)
    \/ \E t \in 1..MaxThreads : ThreadNext(t)
    \/ \E t \in 1..MaxThreads : ThreadReturn(t)
    \/ ThreadRebuild

SpecHash == InitHash /\ [][NextHash]_vars

\* C17 (hash-strategy determinism): for FNVHash and Consistent, a fixed set of
\* backends and a fixed key, any two iterators created for the key yield the
\* same first backend, and for FNVHash the same sequence of backends.
C17_HashDeterminism ==
    \A t1 \in 1..MaxThreads, t2 \in 1..MaxThreads :
        (/\ sel[t1].key = sel[t2].key
         /\ Len(sel[t1].picks) >= 1
         /\ Len(sel[t2].picks) >= 1)
        => /\ sel[t1].picks[1] = sel[t2].picks[1]
           /\ strategy = "FNVHash" =>
                \A k \in 1..Len(sel[t1].picks) :
                    k <= Len(sel[t2].picks) => sel[t1].picks[k] = sel[t2].picks[k]

\* C17 case: two requests with the same key on an FNVHash selector of three
\* backends, one begun before a rebuild and one after it, both past their
\* second pick
C17_Witness ==
    /\ strategy = "FNVHash"
    /\ Cardinality(backends) = 3
    /\ ghost.op = "rebuild_selector"
    /\ sel[1].key = <<116, 101, 115, 116>>
    /\ sel[2].key = sel[1].key
    /\ Len(sel[1].picks) >= 2
    /\ Len(sel[2].picks) >= 2
    /\ ~sel[1].rebuilt
    /\ sel[2].rebuilt

-----------------------------------------------------------------------------
(* Rebuilds of the selector from an unchanged set of backends: what the    *)
(* first pick for a key is before and after.                               *)

\* the metrics of n backends (connections, latency EWMA) at the time of a
\* build: all 0, or one backend at 5
RebuildMetrics(n) ==
    {[b \in 1..n |-> Some(IF b = k THEN 5 ELSE 0)] : k \in 0..n}

\* the first backend of the iterator that s makes for key with seed alg
FirstPickOf(s, key, alg) == AdaptiveIterNext(s, iter(s, key, alg), 0).item

\* there are a set of backends and a key for which a selector built from the
\* set and the selector rebuilt from the same set (fresh algorithm, the metrics
\* of the time) give different first picks
RebuildCanChangePick(kind) ==
    \E n \in 1..MaxBackends :
      \E w \in WeightProfiles(n), key \in HashKeys, cur \in 0..MaxCursor,
         m1 \in RebuildMetrics(n), m2 \in RebuildMetrics(n) :
        \E s1 \in build_backend_selector(kind, 1..n, w, m1, m1),
           s2 \in build_backend_selector(kind, 1..n, w, m2, m2) :
          \E a1 \in AlgNextAt(kind, key, Len(s1.weighted), cur),
             a2 \in AlgNextAt(kind, key, Len(s2.weighted), 0) :
            FirstPickOf(s1, key, a1) # FirstPickOf(s2, key, a2)

\* the strategies for which a rebuild from the same set can change a pick
ChangedByRebuild == {kind \in Adaptive : RebuildCanChangePick(kind)}

\* in this state, if the strategy is one of K: a request served by the rebuilt
\* selector got the same first pick as a request with the same key served by
\* the selector before the rebuild
StableAcrossRebuild(K) ==
    strategy \in K =>
      \A t1 \in 1..MaxThreads, t2 \in 1..MaxThreads :
          (/\ ~sel[t1].rebuilt
           /\ sel[t2].rebuilt
           /\ sel[t1].key = sel[t2].key
           /\ Len(sel[t1].picks) >= 1
           /\ Len(sel[t2].picks) >= 1)
          => sel[t1].picks[1] = sel[t2].picks[1]

\* C18 as stated (stability across rebuilds): Consistent is the only strategy
\* whose per-key first pick is the same before and after a rebuild from an
\* unchanged set of backends; for each of the other five, FNVHash among them,
\* some set of backends and key have the rebuild change the pick.
C18_OnlyConsistentStable ==
    /\ StableAcrossRebuild({"Consistent"})
    /\ \A kind \in Adaptive \ {"Consistent"} : kind \in ChangedByRebuild

\* C18, amended: the per-key first pick of Consistent and of FNVHash is the
\* same before and after a rebuild from an unchanged set of backends; for each
\* of RoundRobin, Random, FewestConnections and FastestServer some set of
\* backends and key have the rebuild change the pick.
C18_HashStrategiesStable ==
    /\ StableAcrossRebuild(HashStrategies)
    /\ \A kind \in Adaptive \ HashStrategies : kind \in ChangedByRebuild

\* C18 case: an FNVHash selector of three backends; a request keyed b"test"
\* got its first pick before the rebuild and another one after it
C18_Witness ==
    /\ strategy = "FNVHash"
    /\ Cardinality(backends) = 3
    /\ sel[1].key = <<116, 101, 115, 116>>
    /\ sel[2].key = sel[1].key
    /\ ~sel[1].rebuilt
    /\ sel[2].rebuilt
    /\ Len(sel[1].picks) >= 1
    /\ Len(sel[2].picks) >= 1

-----------------------------------------------------------------------------
(* SpecSorted: the selector of a dynamic strategy (FewestConnections,      *)
(* FastestServer) is built from a snapshot of backends with their metrics, *)
(* an iterator is made and next() is called on it, also after it has       *)
(* returned None.  sel.out lists what the calls returned.                  *)

\* the active connections, or latency EWMA in ms, of a backend at build time
SortedMetricValues == {0, 5, 10}

\* the metric the strategy sorts by
Metric(b) ==
    IF strategy = "FewestConnections" THEN Val(conns[b]) ELSE Val(latency[b])

\* BackendSelection::iter: the iterator starts at index 0, the key is not read
SortedIter ==
    /\ sel.pc = "built"
    /\ sel' = [sel EXCEPT !.pc = "sorted", !.it = iter(selector, <<>>, 0)]
    /\ UNCHANGED <<backends, weight, health, conns, counter, latency, config,
                   strategy, selector, cursor, sup, ghost, req>>

\* BackendIter::next: backends.get(index)?, index += 1
SortedNext ==
    /\ sel.pc = "sorted"
    /\ Len(sel.out) < MaxCalls
    /\ LET n == SortedIterNext(selector, sel.it)
       IN  sel' = [sel EXCEPT !.it = n.it, !.out = Append(@, n.item)]
    /\ UNCHANGED <<backends, weight, health, conns, counter, latency, config,
                   strategy, selector, cursor, sup, ghost, req>>

InitSorted ==
    \E n \in 1..MaxBackends, kind \in Dynamic :
      \E m \in [1..n -> SortedMetricValues] :
        /\ backends = 1..n
        /\ weight = [b \in backends |-> 1]
        /\ health = [b \in backends |-> DefaultHealth]
        /\ conns = [b \in backends |->
                      Some(IF kind = "FewestConnections" THEN m[b] ELSE 0)]
        /\ counter = [b \in backends |-> CounterOf(conns[b])]
        /\ latency = [b \in backends |->
                        Some(IF kind = "FastestServer" THEN m[b] ELSE 0)]
        /\ config = Options(kind, None, None)
        /\ strategy = kind
        /\ selector \in build_backend_selector(kind, backends, weight, conns,
                                                latency)
        /\ cursor = 0
        /\ sel = [pc |-> "built", it |-> None, out |-> <<>>]
        /\ sup = IdleSup
        /\ ghost = NoGhost
        /\ req = NoReq

NextSorted ==
    \/ SortedIter
    \/ SortedNext

SpecSorted == InitSorted /\ [][NextSorted]_vars

\* C19 (dynamic selector order): the iterator of a FewestConnections or
\* FastestServer selector yields every backend of the snapshot exactly once, in
\* non-decreasing order of the metric (a latency EWMA of 0 sorts first), and
\* None on every call after the last backend.
C19_DynamicSelectorOrder ==
    LET N == Cardinality(backends)
        out == sel.out
    IN  /\ \A k \in 1..Len(out) :
              IF k <= N THEN out[k] # None /\ Val(out[k]) \in backends
              ELSE out[k] = None
        /\ \A i \in 1..Len(out), j \in 1..Len(out) :
              (i < j /\ j <= N) =>
                  /\ Val(out[i]) # Val(out[j])
                  /\ Metric(Val(out[i])) <= Metric(Val(out[j]))
                  /\ Metric(Val(out[j])) = 0 => Metric(Val(out[i])) = 0
        /\ Len(out) >= N => {Val(out[k]) : k \in 1..N} = backends

\* C19 case: FastestServer, two backends, the one of the higher endpoint with
\* EWMA 0 (no sample yet); it was yielded first, then the other, and the two
\* calls after the last backend returned None
C19_Witness ==
    /\ strategy = "FastestServer"
    /\ backends = {1, 2}
    /\ latency[1] = Some(10)
    /\ latency[2] = Some(0)
    /\ sel.out = <<Some(2), Some(1), None, None>>

-----------------------------------------------------------------------------
(* update_strategy as the supervisor and the control plane call it.        *)

\* this step is the strategy evaluation of a supervisor tick (lines 45-57)
EvaluationStep ==
    /\ sup.pc = "eval"
    /\ sup'.pc = "rebuild"
    /\ Due(sup.next_strategy_eval, sup.now)

\* this step is an update_strategy call of the control plane
ControlPlaneStep ==
    /\ sup' = sup
    /\ ghost'.op = "update_strategy"
    /\ <<strategy, selector, cursor, ghost>>' # <<strategy, selector, cursor, ghost>>

\* C21 (idempotence of update_strategy): update_strategy(s) with s the current
\* strategy returns false (the supervisor keeps its rebuild deadline), and the
\* published selector is not rebuilt; with another s it returns true (the
\* supervisor sets the rebuild deadline by the period of s) and the current
\* strategy becomes s.
C21_UpdateStrategyIdempotent ==
    [][/\ EvaluationStep =>
            LET s == evaluate_strategy(strategy, backends, conns, latency)
            IN  IF s = strategy
                THEN /\ strategy' = strategy
                     /\ selector' = selector
                     /\ cursor' = cursor
                     /\ ghost'.age = ghost.age
                     /\ sup'.selector_rebuild = sup.selector_rebuild
                ELSE /\ strategy' = s
                     /\ sup'.selector_rebuild =
                            After(sup.now, rebuild_frequency(s))
       /\ ControlPlaneStep =>
            IF strategy' = strategy
            THEN /\ selector' = selector
                 /\ cursor' = cursor
                 /\ ghost'.age = ghost.age
            ELSE strategy' \in ControlPlaneInstalls
      ]_vars

\* C21 case: in a later tick the engine returned the current, dynamic strategy;
\* the rebuild deadline, which is due, was left as it was
C21_Witness ==
    /\ sup.pc = "rebuild"
    /\ sup.now > 0
    /\ ghost.op = "evaluate"
    /\ ghost.from = strategy
    /\ ghost.to = strategy
    /\ strategy \in Dynamic
    /\ Due(sup.selector_rebuild, sup.now)
    /\ sup.next_strategy_eval = Some(sup.now + EvaluateStrategyFrequencyMs)

-----------------------------------------------------------------------------
(* SpecRegistry: the registry (Backends) of a load balancer built by       *)
(* from_backends, with a discovery whose result changes.  One task runs    *)
(* update() and run_health_check() one after the other, as the supervisor  *)
(* does; update() is three steps (discover, publish the snapshot, call the *)
(* callback that stores the selector) and the health check one step per    *)
(* probe.  SpecPublication: the task runs update() while a reader thread   *)
(* calls backends().get_backend() and then select_with(key, 1, accept-all).*)
(* sup is the task and its locals, sel the reader and the locals of its    *)
(* test; ghost.probe is the result of the last probe of                    *)
(* each backend since it was discovered, ghost.enable the readiness that   *)
(* discovery last gave for it (true when it gave none).                    *)

Universe == 1..MaxBackends

\* the sets a discovery returns: the first k backends
DiscoverySets == {1..k : k \in 0..MaxBackends}

\* the readiness map a discovery returns with the set S: empty, or one entry
\* for the last backend of S
DiscoveryReadiness(S) ==
    {<<>>} \cup (IF S = {} THEN {}
                 ELSE {[b \in {MaxOf(S)} |-> v] : v \in BOOLEAN})

Discoveries ==
    UNION {{[backends |-> S, readiness |-> r] : r \in DiscoveryReadiness(S)} :
              S \in DiscoverySets}

RegistryStrategies == {"Consistent", "FewestConnections"}

IdleTask ==
    [pc |-> "idle", new |-> {}, enablement |-> <<>>, pending |-> {},
     parallel |-> FALSE]

IdleReader == [pc |-> "idle", seen |-> {}, snap |-> {}, result |-> None]

\* what discovery::Static returns: the set it holds and an empty readiness map
StaticDiscoveries == {[backends |-> S, readiness |-> <<>>] : S \in DiscoverySets}

\* Backends::update: self.discovery.discover().await, which returns the set and
\* the readiness map (one of D), or an error: update returns the error
UpdateDiscoverFrom(D) ==
    /\ sup.pc = "idle"
    /\ \/ /\ \E d \in D :
               sup' = [sup EXCEPT !.pc = "discovered", !.new = d.backends,
                                  !.enablement = d.readiness]
          /\ ghost' = [ghost EXCEPT !.op = "discover"]
       \/ /\ sup' = sup
          /\ ghost' = [ghost EXCEPT !.op = "discover_error"]
    /\ UNCHANGED <<backends, weight, health, conns, counter, latency, config,
                   strategy, selector, cursor, sel, req>>

UpdateDiscover == UpdateDiscoverFrom(Discoveries)

\* a new table that starts every backend from the default Health
FreshHealth(b, enablement) ==
    IF b \in DOMAIN enablement
    THEN [DefaultHealth EXCEPT !.enabled = enablement[b]]
    ELSE DefaultHealth

\* the Health of backend b in the new table: that of the old table, the default
\* for a new backend; the readiness of the discovery overrides enabled
MergedHealth(b, enablement) ==
    LET old == IF b \in DOMAIN health THEN health[b] ELSE DefaultHealth
    IN  IF b \in DOMAIN enablement THEN [old EXCEPT !.enabled = enablement[b]]
        ELSE old

\* a new snapshot whose backends all get a fresh handle
FreshMetric(b, new, m) ==
    IF b \in new THEN Some(0) ELSE m[b]

\* the metrics handle of backend b in the new snapshot: the handle it has, a
\* fresh one (strategy.metrics()) for a new backend
CarriedMetric(b, new, m) ==
    IF b \in new /\ b \notin backends THEN Some(0) ELSE m[b]

\* Backends::update after discover(): when the set differs from the published
\* one the new snapshot (the set and the health table) is published and the
\* callback is due; when it is the same only the readiness is applied
UpdatePublish ==
    /\ sup.pc = "discovered"
    /\ LET new == sup.new
           en == sup.enablement
       IN  IF new # backends
           THEN /\ backends' = new
                /\ health' = [b \in new |-> MergedHealth(b, en)]
                /\ conns' = [b \in Universe |-> CarriedMetric(b, new, conns)]
                /\ latency' = [b \in Universe |-> CarriedMetric(b, new, latency)]
                /\ counter' = [b \in Universe |->
                                 IF b \in new /\ b \notin backends
                                 THEN CounterOf(Some(0)) ELSE counter[b]]
                /\ sup' = [sup EXCEPT !.pc = "callback"]
                /\ ghost' = [ghost EXCEPT
                      !.op = "publish",
                      !.probe = [b \in Universe |->
                                   IF b \in new /\ b \in backends THEN @[b]
                                   ELSE None],
                      !.enable = [b \in Universe |->
                                    IF b \in DOMAIN en /\ b \in new THEN en[b]
                                    ELSE IF b \in new /\ b \in backends THEN @[b]
                                    ELSE TRUE]]
           ELSE /\ health' = [b \in DOMAIN health |-> MergedHealth(b, en)]
                /\ sup' = IdleTask
                /\ ghost' = [ghost EXCEPT
                      !.op = "unchanged",
                      !.enable = [b \in Universe |->
                                    IF b \in DOMAIN en /\ b \in backends THEN en[b]
                                    ELSE @[b]]]
                /\ UNCHANGED <<backends, conns, latency, counter>>
    /\ UNCHANGED <<weight, config, strategy, selector, cursor, sel, req>>

\* a callback that builds the selector and does not store it
UpdateCallbackNoStore ==
    /\ sup.pc = "callback"
    /\ sup' = IdleTask
    /\ ghost' = [ghost EXCEPT !.op = "callback"]
    /\ UNCHANGED <<backends, weight, health, conns, counter, latency, config,
                   strategy, selector, cursor, sel, req>>

\* LoadBalancer::update, the callback: self.selector.store(build(&backends));
\* the selector built has an algorithm of its own, its cursor at 0
UpdateCallback ==
    /\ sup.pc = "callback"
    /\ selector' \in build_backend_selector(strategy, sup.new, weight, conns,
                                            latency)
    /\ cursor' = 0
    /\ sup' = IdleTask
    /\ ghost' = [ghost EXCEPT !.op = "callback"]
    /\ UNCHANGED <<backends, weight, health, conns, counter, latency, config,
                   strategy, sel, req>>

\* Backends::run_health_check(parallel): the snapshot is loaded, every backend
\* of it is to be probed
HealthCheckStart ==
    /\ sup.pc = "idle"
    /\ backends # {}
    /\ \E parallel \in BOOLEAN :
         sup' = [sup EXCEPT !.pc = "probing", !.pending = backends,
                            !.parallel = parallel]
    /\ UNCHANGED <<backends, weight, health, conns, counter, latency, config,
                   strategy, selector, cursor, sel, ghost, req>>

\* the backends whose probe can be the next to report: in a sequential check
\* the first of those left, in a parallel check any of them
NextProbes(pending, parallel) ==
    IF parallel THEN pending ELSE {MinOf(pending)}

\* check_and_report: the probe of one backend succeeds or fails and the result
\* is written to its Health
HealthProbe ==
    /\ sup.pc = "probing"
    /\ \E b \in NextProbes(sup.pending, sup.parallel),
          ok \in BOOLEAN :
         /\ health' = [health EXCEPT ![b].healthy = ok]
         /\ ghost' = [ghost EXCEPT !.op = "probe", !.probe[b] = Some(ok)]
         /\ sup' = IF sup.pending = {b} THEN IdleTask
                   ELSE [sup EXCEPT !.pending = @ \ {b}]
    /\ UNCHANGED <<backends, weight, conns, counter, latency, config, strategy,
                   selector, cursor, sel, req>>

\* the reader: backends().get_backend()
ReaderGetBackend ==
    /\ sel.pc \in {"idle", "done"}
    /\ sel' = [IdleReader EXCEPT !.pc = "observed", !.seen = backends]
    /\ UNCHANGED <<backends, weight, health, conns, counter, latency, config,
                   strategy, selector, cursor, sup, ghost, req>>

\* select_with(key, 1, |_, _| true): the first backend of the iterator, if any
SelectWithOnce(s, key) ==
    LET n == AdaptiveIterNext(s, iter(s, key, 0), 0)
        q == UniqueIteratorStep([seen |-> {}, steps |-> 0, max_iterations |-> 1],
                                n.item)
    IN  IF q.ret = "Some" /\ accept_any(Val(n.item), ready(Val(n.item)))
        THEN n.item ELSE None

\* the reader: select_with(b"test", 1, accept-all) on the published selector;
\* snap is the snapshot published at that time
ReaderSelect ==
    /\ sel.pc = "observed"
    /\ sel' = [sel EXCEPT !.pc = "done", !.snap = backends,
                          !.result = SelectWithOnce(selector, <<116, 101, 115, 116>>)]
    /\ UNCHANGED <<backends, weight, health, conns, counter, latency, config,
                   strategy, selector, cursor, sup, ghost, req>>

InitRegistry ==
    \E kind \in RegistryStrategies :
        /\ backends = {}
        /\ weight = [b \in Universe |-> 1]
        /\ health = [b \in {} |-> DefaultHealth]
        /\ conns = [b \in Universe |-> Some(0)]
        /\ counter = [b \in Universe |-> CounterOf(conns[b])]
        /\ latency = [b \in Universe |-> Some(0)]
        /\ config = Options(kind, None, None)
        /\ strategy = kind
        /\ selector \in build_backend_selector(kind, {}, weight, conns, latency)
        /\ cursor = 0
        /\ sel = IdleReader
        /\ sup = IdleTask
        /\ ghost = [op |-> "none", age |-> 0,
                    probe |-> [b \in Universe |-> None],
                    enable |-> [b \in Universe |-> TRUE]]
        /\ req = NoReq

\* the task alternates update() and run_health_check()
NextRegistry ==
    \/ UpdateDiscover
    \/ UpdatePublish
    \/ UpdateCallback
    \/ HealthCheckStart
    \/ HealthProbe

SpecRegistry == InitRegistry /\ [][NextRegistry]_vars

\* the task runs update() while the reader polls and selects
NextPublication ==
    \/ UpdateDiscover
    \/ UpdatePublish
    \/ UpdateCallback
    \/ ReaderGetBackend
    \/ ReaderSelect

SpecPublication == InitRegistry /\ [][NextPublication]_vars

C23_CallbackIffChanged ==
    [][ /\ sup.pc = "discovered" =>
            /\ (sup'.pc = "callback") <=> (sup.new # backends)
            /\ sup'.pc \in {"callback", "idle"}
            /\ selector' = selector
        /\ sup.pc = "callback" =>
            /\ selector' \in build_backend_selector(strategy, backends, weight,
                                                    conns, latency)
            /\ sup'.pc = "idle"
        /\ selector' # selector => sup.pc = "callback"
        /\ sup'.pc = "callback" => sup.pc = "discovered" ]_vars

\* C23 case: an update whose discovery returned the published, non-empty set
\* has just ended without the callback; the selector is the one the earlier
\* update stored
C23_Witness ==
    /\ ghost.op = "unchanged"
    /\ sup.pc = "idle"
    /\ backends = 1..2
    /\ Len(selector.backends) = 2

\* C24 (readiness): a backend is ready exactly when it is in the published
\* snapshot, the readiness discovery last gave for it is true (true when it
\* gave none) and its most recent probe, if it was probed since it was
\* discovered, succeeded; this holds after sequential and after parallel
\* health checks alike, in whatever order the probes report.
C24_ReadyIffEnabledAndProbeOk ==
    \A b \in Universe :
        ready(b) <=> /\ b \in backends
                     /\ ghost.enable[b]
                     /\ ghost.probe[b] # Some(FALSE)

\* C24 case: of three published backends, all probed, the first failed its
\* probe, the second passed it and is ready, the third passed it and is not
\* ready because discovery said so
C24_Witness ==
    /\ sup.pc = "idle"
    /\ backends = 1..3
    /\ ghost.probe = [b \in Universe |-> Some(b # 1)]
    /\ ~ghost.enable[3]
    /\ ~ready(1)
    /\ ready(2)
    /\ ~ready(3)

\* C25 (readiness preserved across discovery): in every order of updates and
\* health checks of the registry's task, an update keeps the probe result of
\* every backend that is in the old and in the new set, and the readiness of
\* such a backend changes only by a probe of that backend, which sets it from
\* the result, or by an update whose discovery gave a readiness for it.
C25_ReadinessPreserved ==
    [][ \A b \in backends \cap backends' :
          /\ sup.pc # "probing" => health'[b].healthy = health[b].healthy
          /\ (sup.pc # "probing" /\ b \notin DOMAIN sup.enablement)
                => health'[b] = health[b]
          /\ ready(b)' # ready(b) =>
                \/ /\ sup.pc = "probing"
                   /\ b \in sup.pending
                   /\ ghost'.probe[b] = Some(health'[b].healthy)
                \/ /\ sup.pc = "discovered"
                   /\ b \in DOMAIN sup.enablement
                   /\ health'[b].enabled = sup.enablement[b] ]_vars

\* C25 case: an update has just published a different set; backend 1, in the
\* old and in the new set, failed its last probe and is still not ready, while
\* backend 2 is new
C25_Witness ==
    /\ ghost.op = "publish"
    /\ sup.pc = "callback"
    /\ backends = 1..2
    /\ ghost.probe[1] = Some(FALSE)
    /\ ghost.probe[2] = None
    /\ ~ready(1)
    /\ ready(2)

-----------------------------------------------------------------------------
(* SpecTelemetry: a request goes through the proxy's hooks and records     *)
(* into the metrics of the backend it holds, while the registry's task     *)
(* runs update() over a static discovery, rebuild_selector() and           *)
(* update_strategy() in any order.  counter and latency are the metrics    *)
(* handles, one per endpoint.                                              *)

TelemetryStrategies == {"Consistent", "FastestServer"}

\* LoadBalancer::rebuild_selector, called between two operations of the task
RebuildPublished ==
    /\ sup.pc = "idle"
    /\ ~BuildPanics(strategy, backends, conns, latency)
    /\ selector' \in build_backend_selector(strategy, backends, weight, conns,
                                            latency)
    /\ cursor' = 0
    /\ ghost' = [ghost EXCEPT !.op = "rebuild_selector", !.age = 0]
    /\ UNCHANGED <<backends, weight, health, conns, counter, latency, config,
                   strategy, sel, sup, req>>

\* LoadBalancer::update_strategy, called between two operations of the task
UpdateStrategyPublished(new_strategy) ==
    /\ sup.pc = "idle"
    /\ UpdateStrategy(new_strategy)
    /\ ghost' = [ghost EXCEPT !.op = "update_strategy",
                              !.age = AgeAfterUpdate(new_strategy)]
    /\ UNCHANGED <<backends, weight, health, conns, counter, latency, config,
                   sel, sup, req>>

InitTelemetry ==
    /\ backends = {}
    /\ weight = [b \in Universe |-> 1]
    /\ health = [b \in {} |-> DefaultHealth]
    /\ conns = [b \in Universe |-> Some(0)]
    /\ counter = [b \in Universe |-> CounterOf(conns[b])]
    /\ latency = [b \in Universe |-> Some(0)]
    /\ config = Options("Consistent", None, None)
    /\ strategy = "Consistent"
    /\ selector \in build_backend_selector(strategy, {}, weight, conns, latency)
    /\ cursor = 0
    /\ sel = IdleReader
    /\ sup = IdleTask
    /\ ghost = [op |-> "none", age |-> 0,
                probe |-> [b \in Universe |-> None],
                enable |-> [b \in Universe |-> TRUE]]
    /\ req = [i \in {1} |-> new_ctx]

NextTelemetry ==
    \/ UpdateDiscoverFrom(StaticDiscoveries)
    \/ UpdatePublish
    \/ UpdateCallback
    \/ RebuildPublished
    \/ \E s \in TelemetryStrategies : UpdateStrategyPublished(s)
    \/ \E o \in SelectOutcomes : UpstreamPeer(1, o)
    \/ ConnectFailed(1)
    \/ ConnectedToUpstream(1)
    \/ UpstreamRequestFilter(1)
    \/ \E x \in LatencySamples : UpstreamResponseFilter(1, x)
    \/ UpstreamStreamEnded(1)

SpecTelemetry == InitTelemetry /\ [][NextTelemetry]_vars

\* C26 (metrics survive snapshots and rebuilds): no step of update(),
\* rebuild_selector() or update_strategy() changes the active-connection
\* counter or the latency EWMA of a backend that is in the snapshot before and
\* after it; only the hooks of a request do.  Every selector that is stored is
\* built from the metrics as they are then, those recorded by requests
\* included.
C26_MetricsSurvive ==
    [][ /\ \A b \in backends \cap backends' :
              req' = req => /\ counter'[b] = counter[b]
                            /\ latency'[b] = latency[b]
        /\ selector' # selector =>
              selector' \in build_backend_selector(strategy', backends', weight,
                                                   conns, latency') ]_vars

\* C26 case: backend 1 was selected by a request, which recorded a latency
\* and still holds its stream; later an update added backend 2 and the
\* selector its callback stored, built by FastestServer, puts backend 2 first
C26_Witness ==
    /\ ghost.op = "callback"
    /\ strategy = "FastestServer"
    /\ backends = 1..2
    /\ latency[1] # Some(0)
    /\ latency[2] = Some(0)
    /\ counter[1] = CounterOf(Some(1))
    /\ req[1].stream = Some(1)
    /\ selector.backends = <<2, 1>>

-----------------------------------------------------------------------------
(* SpecRecovery: a round-robin load balancer over backends of weight 1;    *)
(* one caller calls select one call after the other while health checks    *)
(* change the readiness between the calls.  ghost keeps the result of the  *)
(* last select, the backends that were not ready during it (unready) or    *)
(* during any select so far (skipped), and window: the results of the      *)
(* latest selects made in a row with every backend ready, at most as many  *)
(* as there are backends.                                                  *)

\* the loop of select_with from the iterator it, with cur the value of the
\* shared cursor: the backend returned and the cursor afterwards
RECURSIVE SelectLoop(_, _, _, _, _)
SelectLoop(s, it, u, f, cur) ==
    LET fb == IsFallback(s, it)
        alg == IF fb THEN CHOOSE a \in AlgNextAt(s.kind, it.index,
                                                 Len(s.backends), cur) : TRUE
               ELSE 0
        after == IF fb /\ s.kind = "RoundRobin" THEN cur + 1 ELSE cur
        n == AdaptiveIterNext(s, it, alg)
        r == UniqueIteratorStep(u, n.item)
    IN  CASE r.ret = "None" -> [result |-> None, cursor |-> after]
          [] r.ret = "Loop" -> SelectLoop(s, n.it, r.u, f, after)
          [] r.ret = "Some" ->
               IF accept(f, Val(n.item), ready(Val(n.item)))
               THEN [result |-> n.item, cursor |-> after]
               ELSE SelectLoop(s, n.it, r.u, f, after)

\* a select whose accept function does not look at the readiness
SelectIgnoringHealth(key, max_iterations) ==
    SelectLoop(selector,
               iter(selector, key,
                    CHOOSE a \in AlgNext(selector.kind, key,
                                         Len(selector.weighted)) : TRUE),
               [seen |-> {}, steps |-> 0, max_iterations |-> max_iterations],
               "any",
               IF selector.kind = "RoundRobin" THEN cursor + 1 ELSE cursor)

\* AdaptiveLoadBalancer::select(key, max_iterations) of a selector whose
\* algorithm is deterministic, run to its end
Select(key, max_iterations) ==
    SelectLoop(selector,
               iter(selector, key,
                    CHOOSE a \in AlgNext(selector.kind, key,
                                         Len(selector.weighted)) : TRUE),
               [seen |-> {}, steps |-> 0, max_iterations |-> max_iterations],
               "default",
               IF selector.kind = "RoundRobin" THEN cursor + 1 ELSE cursor)

AllReady == \A b \in backends : ready(b)

\* the budgets of the calls: one backend, every backend, more
RecoveryBudgets == {1, Cardinality(backends), MaxBudget}

\* one call of select
RecoverySelect(max_iterations) ==
    /\ cursor < MaxCursor
    /\ LET r == Select(<<>>, max_iterations)
       IN  /\ cursor' = r.cursor
           /\ ghost' = [ghost EXCEPT
                 !.op = "select",
                 !.result = r.result,
                 !.unready = {b \in backends : ~ready(b)},
                 !.skipped = @ \cup {b \in backends : ~ready(b)},
                 !.window = IF ~AllReady THEN <<>>
                            ELSE IF Len(@) < Cardinality(backends)
                            THEN Append(@, r.result)
                            ELSE Append(Tail(@), r.result)]
    /\ UNCHANGED <<backends, weight, health, conns, counter, latency, config,
                   strategy, selector, sel, sup, req>>

InitRecovery ==
    \E n \in 1..MaxBackends : \E h \in [1..n -> BOOLEAN] :
        /\ backends = 1..n
        /\ weight = [b \in backends |-> 1]
        /\ health = [b \in backends |-> HealthOf(h[b])]
        /\ conns = [b \in backends |-> Some(0)]
        /\ counter = [b \in backends |-> CounterOf(conns[b])]
        /\ latency = [b \in backends |-> Some(0)]
        /\ config = Options("RoundRobin", None, None)
        /\ strategy = "RoundRobin"
        /\ selector = WeightedSelectorNew("RoundRobin", backends, weight)
        /\ cursor = 0
        /\ sel = IdleSel
        /\ sup = IdleSup
        /\ ghost = [op |-> "none", age |-> 0, result |-> None, unready |-> {},
                    skipped |-> {}, window |-> <<>>]
        /\ req = NoReq

NextRecovery ==
    \/ \E m \in RecoveryBudgets : RecoverySelect(m)
    \/ \E b \in backends, ok \in BOOLEAN : RunHealthCheck(b, ok)

SpecRecovery == InitRecovery /\ [][NextRecovery]_vars

\* C27 (recovery after a health change): with round robin over backends of
\* weight 1, a select never returns a backend that is not ready when it is
\* called, and any |B| selects made in a row with every backend ready, each
\* with a budget of at least one, return every backend: a backend that is
\* ready again is returned within |B| selects.
C27_RecoveryAfterHealthChange ==
    /\ ghost.result # None => Val(ghost.result) \notin ghost.unready
    /\ Len(ghost.window) = Cardinality(backends) =>
          Range(ghost.window) = {Some(b) : b \in backends}

\* C27 case: the second of three backends was not ready during a select,
\* became ready, and the three selects since returned the three backends,
\* the second one among them
C27_Witness ==
    /\ backends = 1..3
    /\ ghost.skipped = {2}
    /\ ghost.unready = {}
    /\ Len(ghost.window) = 3
    /\ Range(ghost.window) = {Some(1), Some(2), Some(3)}
    /\ cursor = MaxCursor
    /\ AllReady

-----------------------------------------------------------------------------
(* SpecClosure: a load balancer of any strategy whose snapshot changes by  *)
(* update() and whose selector is replaced by update(), rebuild_selector() *)
(* and update_strategy(), while a caller is inside select_with.  The       *)
(* iterator of the caller holds the selector it loaded, and with it that   *)
(* selector's algorithm: once the selector is replaced, its round-robin    *)
(* cursor is no longer the published one; the caller's record then has     *)
(* the field own, the value of the cursor of the selector it holds.        *)

\* the record of a caller whose selector has cursor c and is not published
WithOwn(r, c) ==
    [f \in DOMAIN r \cup {"own"} |-> IF f = "own" THEN c ELSE r[f]]

Detached(r) == "own" \in DOMAIN r

\* the caller's record after the published selector was replaced
AfterStore(r) ==
    IF r.pc = "iter" /\ ~Detached(r) THEN WithOwn(r, cursor) ELSE r

\* update()'s callback, seen by the caller
ClosureCallback ==
    /\ sup.pc = "callback"
    /\ ~BuildPanics(strategy, sup.new, conns, latency)
    /\ selector' \in build_backend_selector(strategy, sup.new, weight, conns,
                                            latency)
    /\ cursor' = 0
    /\ sel' = AfterStore(sel)
    /\ sup' = IdleTask
    /\ ghost' = [ghost EXCEPT !.op = "callback"]
    /\ UNCHANGED <<backends, weight, health, conns, counter, latency, config,
                   strategy, req>>

\* rebuild_selector(), seen by the caller
ClosureRebuild ==
    /\ sup.pc = "idle"
    /\ ~BuildPanics(strategy, backends, conns, latency)
    /\ selector' \in build_backend_selector(strategy, backends, weight, conns,
                                            latency)
    /\ cursor' = 0
    /\ sel' = AfterStore(sel)
    /\ ghost' = [ghost EXCEPT !.op = "rebuild_selector", !.age = 0]
    /\ UNCHANGED <<backends, weight, health, conns, counter, latency, config,
                   strategy, sup, req>>

\* update_strategy(new_strategy), seen by the caller
ClosureUpdateStrategy(new_strategy) ==
    /\ sup.pc = "idle"
    /\ new_strategy # strategy
    /\ UpdateStrategy(new_strategy)
    /\ sel' = AfterStore(sel)
    /\ ghost' = [ghost EXCEPT !.op = "update_strategy",
                              !.age = AgeAfterUpdate(new_strategy)]
    /\ UNCHANGED <<backends, weight, health, conns, counter, latency, config,
                   sup, req>>

\* a turn of the loop that loads the published selector again and goes on
\* with an iterator of that one
ClosureStepReload ==
    /\ sel.pc = "iter"
    /\ LET s == selector
           it == IF sel.selector = selector THEN sel.it
                 ELSE iter(s, sel.key, IF s.kind = "FNVHash"
                                       THEN HasherNext(sel.key) ELSE cursor)
           fb == IsFallback(s, it)
           rr == fb /\ s.kind = "RoundRobin"
       IN
       /\ rr => cursor < MaxCursor
       /\ cursor' = IF rr THEN cursor + 1 ELSE cursor
       /\ \E alg \in (IF fb THEN AlgNextAt(s.kind, it.index, Len(s.backends),
                                           cursor)
                      ELSE {0}) :
            LET n == AdaptiveIterNext(s, it, alg)
                r == UniqueIteratorStep(sel.u, n.item)
                base == [sel EXCEPT !.selector = s, !.it = n.it, !.u = r.u,
                                    !.inner = @ + 1]
            IN  sel' =
                  CASE r.ret = "None" -> [base EXCEPT !.pc = "done"]
                    [] r.ret = "Loop" -> base
                    [] r.ret = "Some" ->
                         IF accept(sel.accept, Val(n.item), ready(Val(n.item)))
                         THEN [base EXCEPT !.pc = "done", !.result = n.item,
                                           !.out = Append(@, Val(n.item))]
                         ELSE [base EXCEPT !.out = Append(@, Val(n.item))]
    /\ UNCHANGED <<backends, weight, health, conns, counter, latency, config,
                   strategy, selector, sup, ghost, req>>

\* One turn of the loop of get_next inside the loop of select_with, as
\* SelectStep, with the cursor of the selector the iterator holds
ClosureStep ==
    /\ sel.pc = "iter"
    /\ LET s == sel.selector
           fb == IsFallback(s, sel.it)
           rr == fb /\ s.kind = "RoundRobin"
           cur == IF Detached(sel) THEN sel.own ELSE cursor
       IN
       /\ rr => cur < MaxCursor
       /\ cursor' = IF rr /\ ~Detached(sel) THEN cursor + 1 ELSE cursor
       /\ \E alg \in (IF fb THEN AlgNextAt(s.kind, sel.it.index,
                                           Len(s.backends), cur)
                      ELSE {0}) :
            LET n == AdaptiveIterNext(s, sel.it, alg)
                r == UniqueIteratorStep(sel.u, n.item)
                moved == [sel EXCEPT !.it = n.it, !.u = r.u, !.inner = @ + 1]
                base == IF rr /\ Detached(sel) THEN WithOwn(moved, cur + 1)
                        ELSE moved
            IN  sel' =
                  CASE r.ret = "None" -> [base EXCEPT !.pc = "done"]
                    [] r.ret = "Loop" -> base
                    [] r.ret = "Some" ->
                         IF accept(sel.accept, Val(n.item), ready(Val(n.item)))
                         THEN [base EXCEPT !.pc = "done", !.result = n.item,
                                           !.out = Append(@, Val(n.item))]
                         ELSE [base EXCEPT !.out = Append(@, Val(n.item))]
    /\ UNCHANGED <<backends, weight, health, conns, counter, latency, config,
                   strategy, selector, sup, ghost, req>>

ClosureKey == <<116, 101, 115, 116>>

\* what the discovery returns: one backend, or all of them
ClosureDiscoveries ==
    {[backends |-> S, readiness |-> <<>>] : S \in {{1}, 1..MaxBackends}}

\* the strategies update_strategy is called with
ClosureInstalls == {"RoundRobin", "FewestConnections"}

InitClosure ==
    \E kind \in Adaptive :
        /\ backends = {}
        /\ weight = [b \in Universe |-> 1]
        /\ health = [b \in {} |-> DefaultHealth]
        /\ conns = [b \in Universe |-> Some(5 * b)]
        /\ counter = [b \in Universe |-> CounterOf(conns[b])]
        /\ latency = [b \in Universe |-> Some(10 * (MaxBackends + 1 - b))]
        /\ config = Options(kind, None, None)
        /\ strategy = kind
        /\ selector \in build_backend_selector(kind, {}, weight, conns, latency)
        /\ cursor = 0
        /\ sel = IdleSel
        /\ sup = IdleTask
        /\ ghost = [op |-> "none", age |-> 0,
                    probe |-> [b \in Universe |-> None],
                    enable |-> [b \in Universe |-> TRUE]]
        /\ req = NoReq

NextClosure ==
    \/ UpdateDiscoverFrom(ClosureDiscoveries)
    \/ UpdatePublish
    \/ ClosureCallback
    \/ ClosureRebuild
    \/ \E s \in ClosureInstalls : ClosureUpdateStrategy(s)
    \/ \E f \in AcceptFns : SelectStart(ClosureKey, MaxBudget, f)
    \/ ClosureStep
    \/ SelectReturn

SpecClosure == InitClosure /\ [][NextClosure]_vars

\* the sequence s lists every element of the set S once
IsPermutation(s, S) == Range(s) = S /\ Len(s) = Cardinality(S)

\* C28 (closure): whenever a selector is stored, for any strategy, its backend
\* array is a permutation of the snapshot it was built from; a select_with
\* that is running keeps the selector it loaded whatever is stored meanwhile,
\* every backend its iterator yields and the backend it returns are backends
\* of that selector, and an iterator over a sorted selector yields that
\* selector's array in order.
C28_Closure ==
    [][ /\ selector' # selector => IsPermutation(selector'.backends, backends')
        /\ sel.pc = "iter" =>
              /\ sel'.selector = sel.selector
              /\ Range(sel'.out) \subseteq Range(sel.selector.backends)
              /\ sel'.result # None =>
                    Val(sel'.result) \in Range(sel.selector.backends)
              /\ sel.selector.kind \in Dynamic =>
                    sel'.out = SubSeq(sel.selector.backends, 1, Len(sel'.out)) ]_vars

\* C28 case: the caller loaded a selector built from three backends; since
\* then an update has published a snapshot of one backend and its selector;
\* the caller's iterator has yielded the third backend of its own selector
C28_Witness ==
    /\ sel.pc = "iter"
    /\ Detached(sel)
    /\ backends = {1}
    /\ selector.backends = <<1>>
    /\ 3 \in Range(sel.out)

-----------------------------------------------------------------------------
(* SpecSupervisorFair: the supervisor of SpecSupervisor, from one of its   *)
(* starts, on a runtime that keeps running its task and a clock that       *)
(* keeps advancing: every step of                                          *)
(* the loop that can be taken is taken, update(), the health check, the    *)
(* evaluation and the rebuild return, and a sleep ends once its deadline   *)
(* has passed.  Nothing is assumed of the control plane nor of when the    *)
(* shutdown is requested.                                                  *)

SupervisorFairness ==
    /\ WF_vars(SupUpdate)
    /\ WF_vars(SupHealthCheck)
    /\ WF_vars(SupEvaluate)
    /\ WF_vars(SupRebuild)
    /\ WF_vars(SupWake)
    /\ WF_vars(Tick)

\* the supervisor started with round robin over two backends whose latencies
\* diverge
InitShutdown ==
    /\ InitSupervisor
    /\ strategy = "RoundRobin"
    /\ latency = <<Some(10), Some(50)>>

SpecSupervisorFair ==
    InitShutdown /\ [][NextSupervisor]_vars /\ SupervisorFairness

\* The shutdown was requested early enough for the time of the model: every
\* sleep ends at next_strategy_eval at the latest, which is at most one
\* evaluation period after the time the loop last read the clock.
ShutdownInTime ==
    /\ sup.pc # "off"
    /\ sup.shutdown
    /\ sup.clock + EvaluateStrategyFrequencyMs <= MaxTime

\* the supervisor has seen the flag at the top of the loop and left the loop
Stopped == sup.pc = "stopped"

\* C29 (shutdown): once the shutdown flag is set the supervisor leaves its
\* loop, at the top of the loop after the sleep it is in or comes to; and once
\* it has left the loop its deadlines, the readiness, the snapshot and the
\* selector are touched by no update, health check, evaluation or rebuild: the
\* only changes left are those of the control plane's update_strategy.
C29_Shutdown ==
    /\ ShutdownInTime ~> Stopped
    /\ [][ Stopped =>
             /\ sup' = sup
             /\ health' = health
             /\ backends' = backends
             /\ ghost' # ghost => ghost'.op = "update_strategy"
             /\ selector' # selector => ghost'.op = "update_strategy" ]_vars

\* C29 case: the flag was set while the supervisor slept with a dynamic
\* strategy; it woke when the rebuild and the health check were due and left
\* the loop at the top, neither of them done
C29_Witness ==
    /\ Stopped
    /\ sup.shutdown
    /\ strategy \in Dynamic
    /\ sup.now > 0
    /\ sup.now + EvaluateStrategyFrequencyMs <= MaxTime
    /\ Due(sup.selector_rebuild, sup.now)
    /\ Due(sup.next_health_check, sup.now)


-----------------------------------------------------------------------------
(* SpecDiscoveryFailure: the supervisor of SpecSupervisorFair, started     *)
(* with round robin over backends whose latencies diverge, with a          *)
(* discovery that is polled as often as the health is checked and may      *)
(* fail at every poll.                                                     *)

InitDiscoveryFailure ==
    \E m \in {n \in SupervisorSnapshots : n.latency = <<Some(10), Some(50)>>},
       start \in {"RoundRobin"} :
        /\ backends = {1, 2}
        /\ conns = m.conns
        /\ latency = m.latency
        /\ counter = [b \in backends |-> CounterOf(conns[b])]
        /\ config = Options(start, Some(HealthCheckFrequencyMs),
                            Some(HealthCheckFrequencyMs))
        /\ strategy = start
        /\ weight = [b \in backends |-> 1]
        /\ health = [b \in backends |-> DefaultHealth]
        /\ selector \in build_backend_selector(start, backends, weight, conns,
                                                latency)
        /\ cursor = 0
        /\ sel = IdleSel
        /\ sup = IdleSup
        /\ ghost = NoGhost
        /\ req = NoReq

SpecDiscoveryFailure ==
    InitDiscoveryFailure /\ [][NextSupervisor]_vars /\ SupervisorFairness

\* the update of this tick returned an error
UpdateFailed == sup.pc # "off" /\ sup.failed

\* the steps of a tick after its update
AfterUpdate == {"health", "eval", "rebuild", "sleep"}

\* C30 (discovery failure is tolerated): the step in which update() returns
\* an error leaves the published snapshot, the health of its backends, the
\* current strategy and the selector as they were, sets next_update and goes
\* on to the health check; the task stays in the loop for the rest of that
\* tick; when it sleeps at the end of the tick the health check, the strategy
\* evaluation and the rebuild that were due have been run and rescheduled, the
\* next update is scheduled and there is a deadline to wake at; and the
\* supervisor reaches the top of the loop again.
C30_DiscoveryFailureTolerated ==
    /\ [][ (sup.pc = "loop" /\ sup'.failed)
           => /\ backends' = backends
              /\ health' = health
              /\ strategy' = strategy
              /\ selector' = selector
              /\ sup'.pc = "health"
              /\ sup'.next_update = After(sup.now, config.update_frequency) ]_vars
    /\ [](UpdateFailed => sup.pc \in AfterUpdate)
    /\ []((UpdateFailed /\ sup.pc = "sleep")
           => /\ ~Due(sup.next_health_check, sup.now)
              /\ ~Due(sup.next_strategy_eval, sup.now)
              /\ ~Due(sup.selector_rebuild, sup.now)
              /\ sup.next_update = After(sup.now, config.update_frequency)
              /\ ToWake(sup) # None)
    /\ (UpdateFailed /\ sup.clock + EvaluateStrategyFrequencyMs <= MaxTime)
           ~> (sup.pc = "loop")

\* C30 case: the update failed in a tick, after the first one, in which the
\* health check, the strategy evaluation and the rebuild of a dynamic selector
\* were all due; all three have run and the supervisor sleeps
C30_Witness ==
    /\ UpdateFailed
    /\ sup.pc = "sleep"
    /\ sup.now > 0
    /\ strategy \in Dynamic
    /\ sup.next_health_check = After(sup.now, config.health_check_frequency)
    /\ sup.next_strategy_eval = Some(sup.now + EvaluateStrategyFrequencyMs)
    /\ sup.selector_rebuild = After(sup.now, rebuild_frequency(strategy))
    /\ ghost.op = "rebuild_selector"
    /\ ghost.age = 0


-----------------------------------------------------------------------------
(* SpecPeriods: the supervisor of SpecSupervisor, started with round robin *)
(* over backends whose latencies diverge, with each of the two periods     *)
(* (update_frequency, health_check_frequency) either missing or a second.  *)

Periods == {None, Some(HealthCheckFrequencyMs)}

InitPeriods ==
    \E update_frequency \in Periods, health_check_frequency \in Periods :
        /\ backends = {1, 2}
        /\ conns = <<Some(5), Some(10)>>
        /\ latency = <<Some(10), Some(50)>>
        /\ counter = [b \in backends |-> CounterOf(conns[b])]
        /\ config = Options("RoundRobin", update_frequency, health_check_frequency)
        /\ strategy = "RoundRobin"
        /\ weight = [b \in backends |-> 1]
        /\ health = [b \in backends |-> DefaultHealth]
        /\ selector \in build_backend_selector("RoundRobin", backends, weight,
                                                conns, latency)
        /\ cursor = 0
        /\ sel = IdleSel
        /\ sup = IdleSup
        /\ ghost = NoGhost
        /\ req = NoReq

SpecPeriods == InitPeriods /\ [][NextSupervisor]_vars

\* the runs of an action with the given period that the claim expects once
\* the iteration that woke at time now has passed the action's place
ExpectedRuns(frequency, now) ==
    IF frequency = None THEN 1
    ELSE IF 1 + (now \div Val(frequency)) < MaxRuns
         THEN 1 + (now \div Val(frequency)) ELSE MaxRuns

\* C31 (disabled periods): with a missing period the action (discovery
\* update, health check) has run exactly once when the first iteration has
\* passed its place, and its count never exceeds one, in later iterations and
\* after the loop has ended included; with a period p it has run in the first
\* iteration and once more every p ms since, for as long as the loop runs.
C31_DisabledPeriods ==
    sup.pc # "off" =>
        /\ sup.pc \in {"health", "eval", "rebuild", "sleep"}
           => sup.updates = ExpectedRuns(config.update_frequency, sup.now)
        /\ sup.pc \in {"eval", "rebuild", "sleep"}
           => sup.health_checks =
                  ExpectedRuns(config.health_check_frequency, sup.now)
        /\ config.update_frequency = None
           => sup.updates <= 1 /\ (sup.now > 0 => sup.updates = 1)
        /\ config.health_check_frequency = None
           => sup.health_checks <= 1 /\ (sup.now > 0 => sup.health_checks = 1)

\* C31 case: no health-check period and a discovery period of a second; two
\* seconds after the start the supervisor has checked the health once and has
\* run the discovery three times
C31_Witness ==
    /\ sup.pc = "sleep"
    /\ config.health_check_frequency = None
    /\ config.update_frequency # None
    /\ sup.now >= 2 * HealthCheckFrequencyMs
    /\ sup.health_checks = 1
    /\ sup.updates = MaxRuns


-----------------------------------------------------------------------------
(* SpecEwma: record_latency calls on the LatencyEWMA of one backend, fresh *)
(* at 0.0, with samples in ms (a sample of 0 ms is Duration::ZERO) and a   *)
(* smoothing factor of the default or of 1, both in tenths.  ghost keeps   *)
(* the last call: the average it found, its sample and its factor.         *)

EwmaSamples == {0, 8, 24}

SmoothingFactors == {SmoothingFactor10, 10}

\* Metrics::record_latency(latency, alpha) on the handle of b
RecordSample(b, latency_ms, alpha10) ==
    /\ ghost.calls < MaxCalls
    /\ latency' = [latency EXCEPT ![b] = record_latency(@, latency_ms, alpha10)]
    /\ ghost' = [op |-> "record_latency", age |-> 0, calls |-> ghost.calls + 1,
                 old |-> Val(latency[b]), sample |-> latency_ms,
                 alpha |-> alpha10]
    /\ UNCHANGED <<backends, weight, health, conns, counter, config, strategy,
                   selector, cursor, sel, sup, req>>

InitEwma ==
    /\ backends = {1}
    /\ conns = [b \in backends |-> Some(0)]
    /\ counter = [b \in backends |-> CounterOf(conns[b])]
    /\ latency = [b \in backends |-> Some(0)]
    /\ config = Options("FastestServer", None, None)
    /\ strategy = "FastestServer"
    /\ weight = [b \in backends |-> 1]
    /\ health = [b \in backends |-> DefaultHealth]
    /\ selector \in build_backend_selector(strategy, backends, weight, conns,
                                            latency)
    /\ cursor = 0
    /\ sel = IdleSel
    /\ sup = IdleSup
    /\ ghost = [op |-> "none", age |-> 0, calls |-> 0, old |-> 0, sample |-> 0,
                alpha |-> SmoothingFactor10]
    /\ req = NoReq

NextEwma ==
    \E b \in backends, x \in EwmaSamples, a \in SmoothingFactors :
        RecordSample(b, x, a)

SpecEwma == InitEwma /\ [][NextEwma]_vars

\* a * x + (1 - a) * old, a in tenths
Blend(alpha10, x, old) == (alpha10 * x + (10 - alpha10) * old) \div 10

Between(v, x, y) == (x <= v /\ v <= y) \/ (y <= v /\ v <= x)

\* C32 (latency EWMA update): the first record_latency(x) on a backend sets
\* the average to x; every later record_latency(x) with factor a sets it to
\* a*x + (1-a)*old, which lies between old and x and is c when old and x
\* are both c.
C32_EwmaUpdate ==
    ghost.op = "record_latency" =>
        \A b \in backends :
            /\ ghost.calls = 1 => latency[b] = Some(ghost.sample)
            /\ ghost.calls > 1
               => /\ latency[b] = Some(Blend(ghost.alpha, ghost.sample, ghost.old))
                  /\ Between(Val(latency[b]), ghost.old, ghost.sample)
                  /\ ghost.old = ghost.sample => latency[b] = Some(ghost.sample)

\* C32 case: a later call that found an average of 0 (every sample so far was
\* 0 ms) and brought a sample above 0 with a factor below 1
C32_Witness ==
    /\ ghost.op = "record_latency"
    /\ ghost.calls > 1
    /\ ghost.old = 0
    /\ ghost.sample > 0
    /\ ghost.alpha < 10


-----------------------------------------------------------------------------
(* SpecEndpoint: SetStrategyEndpoint::response over a router with one      *)
(* route.  A request is the session's protocol, the method and what        *)
(* read_body_bytes gives: an error, no body, or bytes; bytes are garbage   *)
(* or a JSON object with or without a "path" and a "strategy" string.      *)

Routes == {"/api"}

\* a router that answers every path with its first route
routeAny(path) == Some(CHOOSE r \in Routes : TRUE)

\* Proxy::route: the route the path matches, if any
route(path) == IF path \in Routes THEN Some(path) ELSE None

Sessions == {"H1", "H2"}

Methods == {"POST", "GET"}

\* "FewestConnection" is what Display writes for FewestConnections
Bodies ==
    {[kind |-> "error"], [kind |-> "none"], [kind |-> "garbage"]}
    \cup {[kind |-> "json", path |-> p, strategy |-> s] :
              p \in {None, Some("/api"), Some("/other")},
              s \in {None, Some("FewestConnection")}
                    \cup {Some(n) : n \in {"RoundRobin", "FewestConnections",
                                           "FastestServer"}}}

\* serde_json::from_slice::<NewStrategy>: both fields are required and the
\* strategy must be the name of a variant of Adaptive
from_slice(body) ==
    IF body.kind = "json" /\ body.path # None /\ body.strategy # None
          /\ Val(body.strategy) \in Adaptive
    THEN Some([path |-> Val(body.path), strategy |-> Val(body.strategy)])
    ELSE None

\* the status of response() and the strategy it hands to update_strategy
Outcome(session, method, body) ==
    IF session = "H2" THEN [status |-> 400, update |-> None]
    ELSE IF method # "POST" THEN [status |-> 405, update |-> None]
    ELSE IF body.kind \in {"error", "none"} THEN [status |-> 500, update |-> None]
    ELSE IF from_slice(body) = None THEN [status |-> 400, update |-> None]
    ELSE IF route(Val(from_slice(body)).path) = None
         THEN [status |-> 400, update |-> None]
    ELSE [status |-> 200, update |-> Some(Val(from_slice(body)).strategy)]

\* SetStrategyEndpoint::response
Response(session, method, body) ==
    LET out == Outcome(session, method, body)
    IN  /\ IF out.update = None
           THEN UNCHANGED <<strategy, selector, cursor>>
           ELSE UpdateStrategy(Val(out.update))
        /\ ghost' = [op |-> "response", age |-> 0, status |-> out.status,
                     session |-> session, method |-> method, body |-> body]
        /\ UNCHANGED <<backends, weight, health, conns, counter, latency,
                       config, sel, sup, req>>

InitEndpoint ==
    \E start \in {"RoundRobin", "Consistent"} :
        /\ backends = {1, 2}
        /\ conns = <<Some(5), Some(10)>>
        /\ latency = <<Some(10), Some(50)>>
        /\ counter = [b \in backends |-> CounterOf(conns[b])]
        /\ config = Options(start, None, None)
        /\ strategy = start
        /\ weight = [b \in backends |-> 1]
        /\ health = [b \in backends |-> DefaultHealth]
        /\ selector \in build_backend_selector(start, backends, weight, conns,
                                                latency)
        /\ cursor = 0
        /\ sel = IdleSel
        /\ sup = IdleSup
        /\ ghost = NoGhost
        /\ req = NoReq

NextEndpoint ==
    \E session \in Sessions, method \in Methods, body \in Bodies :
        Response(session, method, body)

SpecEndpoint == InitEndpoint /\ [][NextEndpoint]_vars

Responded == ghost.op = "response"

\* the body names a path and one of the six strategies
ValidBody(body) ==
    /\ body.kind = "json"
    /\ body.path # None
    /\ body.strategy # None
    /\ Val(body.strategy) \in Adaptive

\* C33 as stated: a non-POST request answers 405; a POST whose body is not
\* valid JSON {path, strategy} with one of the six names answers 400; a POST
\* whose path matches no route answers 400; any other POST answers 200.
C33_OutcomesAsStated ==
    Responded =>
        ghost.status =
            IF ghost.method # "POST" THEN 405
            ELSE IF ~ValidBody(ghost.body) THEN 400
            ELSE IF Val(ghost.body.path) \notin Routes THEN 400
            ELSE 200

\* C33 (control-plane endpoint outcomes, amended): over HTTP/2 every request
\* answers 400.  Over HTTP/1 a non-POST request answers 405; a POST whose
\* body cannot be read or is missing answers 500; a POST whose body is not
\* valid JSON {path, strategy} with one of the six names answers 400; a POST
\* whose path matches no route answers 400; any other POST answers 200 and
\* the named strategy is the current one, with a selector of its variant.
\* A response other than 200 leaves strategy and selector as they were.
C33_Outcomes ==
    /\ [](Responded =>
            /\ ghost.status =
                   IF ghost.session = "H2" THEN 400
                   ELSE IF ghost.method # "POST" THEN 405
                   ELSE IF ghost.body.kind \in {"error", "none"} THEN 500
                   ELSE IF ~ValidBody(ghost.body) THEN 400
                   ELSE IF Val(ghost.body.path) \notin Routes THEN 400
                   ELSE 200
            /\ ghost.status = 200
               => /\ strategy = Val(ghost.body.strategy)
                  /\ selector.kind = strategy)
    /\ [][ (ghost'.op = "response" /\ ghost'.status # 200)
           => (strategy' = strategy /\ selector' = selector) ]_vars

\* C33 case: a POST over HTTP/1 without a body was answered 500 while the
\* current strategy was one that an earlier request had installed
C33_Witness ==
    /\ Responded
    /\ ghost.session = "H1"
    /\ ghost.method = "POST"
    /\ ghost.body.kind = "none"
    /\ ghost.status = 500
    /\ strategy = "FastestServer"


-----------------------------------------------------------------------------
(* SpecSelectFair: the load balancer of SpecSelect over MaxBackends        *)
(* backends of weight 1 with distinct metrics, with a caller that keeps    *)
(* running: a started select_with takes its next turn.                     *)

InitSelectFair ==
    \E kind \in Adaptive :
      /\ backends = 1..MaxBackends
      /\ strategy = kind
      /\ config = Options(kind, None, None)
      /\ weight = [b \in backends |-> 1]
      /\ conns = [b \in backends |-> Some(5 * b)]
      /\ counter = [b \in backends |-> CounterOf(conns[b])]
      /\ latency = [b \in backends |-> Some(10 * b)]
      /\ health = [b \in backends |-> DefaultHealth]
      /\ selector \in build_backend_selector(kind, backends, weight, conns, latency)
      /\ cursor = 0
      /\ sel = IdleSel
      /\ sup = IdleSup
      /\ ghost = NoGhost
      /\ req = NoReq

\* the running call can take a turn: the guard of SelectStep
CanStep ==
    IF sel.pc = "iter"
    THEN (IsFallback(sel.selector, sel.it) /\ sel.selector.kind = "RoundRobin")
         => cursor < MaxCursor
    ELSE FALSE

\* weak fairness of SelectStep, its enabling condition written out
SelectFairness == []<>(~CanStep) \/ []<><<SelectStep>>_vars

SpecSelectFair == InitSelectFair /\ [][NextSelect]_vars /\ SelectFairness

\* a call is running and the global round-robin counter of the model has
\* room for the turns that it can still take
RunningWithRoom ==
    IF sel.pc = "iter"
    THEN sel.selector.kind = "RoundRobin"
         => cursor + (sel.u.max_iterations - sel.u.steps) < MaxCursor
    ELSE FALSE

\* the running call has returned
Returned == sel.pc = "done"

\* the counts of a started call are within its budget
WithinBudget ==
    IF sel.pc \in {"iter", "done"}
    THEN /\ sel.u.steps <= sel.u.max_iterations
         /\ sel.inner <= sel.u.max_iterations + 1
    ELSE TRUE

\* C34 (select terminates within its budget): a select_with call with budget
\* m never counts more than m steps and never calls the inner next() more
\* than m + 1 times; every turn of its loop is one more inner call; and a
\* started call returns.
C34_TerminatesWithinBudget ==
    /\ []WithinBudget
    /\ [][ (sel.pc = "iter" /\ sel' # sel) => sel'.inner = sel.inner + 1 ]_vars
    /\ RunningWithRoom ~> Returned

\* C34 case: a round-robin select over three backends of which none is
\* ready used up its budget and returned None after one inner call more
C34_Witness ==
    /\ sel.pc = "done"
    /\ sel.selector.kind = "RoundRobin"
    /\ backends = 1..MaxBackends
    /\ \A b \in backends : ~ready(b)
    /\ sel.accept = "default"
    /\ sel.result = None
    /\ sel.u.max_iterations = Cardinality(backends)
    /\ sel.u.steps = sel.u.max_iterations
    /\ sel.inner = sel.u.max_iterations + 1


-----------------------------------------------------------------------------
(* SpecFrozen: a FewestConnections or FastestServer load balancer over     *)
(* three backends A, B, C with latencies 50, 10, 100 ms and 2, 0, 3        *)
(* connections.  The hooks change the metrics, rebuild_selector publishes  *)
(* a new selector and select_with calls walk the selector they loaded.     *)
(* ghost.built keeps the metric values the published selector was built    *)
(* from.                                                                   *)

\* the values build_backend_selector of the current strategy reads
MetricsNow == [b \in backends |-> Metric(b)]

\* an on_connect after which the published selector is sorted anew
OnConnectResorting(b) ==
    /\ ghost.calls < MaxCalls
    /\ conns' = [conns EXCEPT ![b] = Some(Val(@) + 1)]
    /\ counter' = [counter EXCEPT ![b] = increment_active_connections(@)]
    /\ selector' \in build_backend_selector(strategy, backends, weight, conns',
                                            latency)
    /\ ghost' = [ghost EXCEPT !.op = "on_connect", !.calls = @ + 1]
    /\ UNCHANGED <<backends, weight, health, latency, config, strategy,
                   cursor, sel, sup, req>>

\* Metrics::increment_active_connections on the handle of b (on_connect)
OnConnect(b) ==
    /\ ghost.calls < MaxCalls
    /\ conns' = [conns EXCEPT ![b] = Some(Val(@) + 1)]
    /\ counter' = [counter EXCEPT ![b] = increment_active_connections(@)]
    /\ ghost' = [ghost EXCEPT !.op = "on_connect", !.calls = @ + 1]
    /\ UNCHANGED <<backends, weight, health, latency, config, strategy,
                   selector, cursor, sel, sup, req>>

\* Metrics::decrement_active_connections on the handle of b (on_disconnect),
\* for a connection that was counted
OnDisconnect(b) ==
    /\ ghost.calls < MaxCalls
    /\ Val(conns[b]) > 0
    /\ conns' = [conns EXCEPT ![b] = Some(Val(@) - 1)]
    /\ counter' = [counter EXCEPT ![b] = decrement_active_connections(@)]
    /\ ghost' = [ghost EXCEPT !.op = "on_disconnect", !.calls = @ + 1]
    /\ UNCHANGED <<backends, weight, health, latency, config, strategy,
                   selector, cursor, sel, sup, req>>

\* Metrics::record_latency on the handle of b, with a sample of 200 ms
RecordSlow(b) ==
    /\ ghost.calls < MaxCalls
    /\ latency' = [latency EXCEPT
                      ![b] = record_latency(@, 200, SmoothingFactor10)]
    /\ ghost' = [ghost EXCEPT !.op = "record_latency", !.calls = @ + 1]
    /\ UNCHANGED <<backends, weight, health, conns, counter, config, strategy,
                   selector, cursor, sel, sup, req>>

\* LoadBalancer::rebuild_selector
RebuildFrozen ==
    /\ selector' \in build_backend_selector(strategy, backends, weight, conns,
                                            latency)
    /\ cursor' = 0
    /\ ghost' = [ghost EXCEPT !.op = "rebuild_selector", !.built = MetricsNow]
    /\ UNCHANGED <<backends, weight, health, conns, counter, latency, config,
                   strategy, sel, sup, req>>

InitFrozen ==
    \E kind \in Dynamic :
        /\ backends = {1, 2, 3}
        /\ conns = <<Some(2), Some(0), Some(3)>>
        /\ counter = [b \in backends |-> CounterOf(conns[b])]
        /\ latency = <<Some(50), Some(10), Some(100)>>
        /\ config = Options(kind, None, None)
        /\ strategy = kind
        /\ weight = [b \in backends |-> 1]
        /\ health = [b \in backends |-> DefaultHealth]
        /\ selector \in build_backend_selector(kind, backends, weight, conns,
                                                latency)
        /\ cursor = 0
        /\ sel = IdleSel
        /\ sup = IdleSup
        /\ ghost = [op |-> "none", age |-> 0, calls |-> 0, built |-> MetricsNow]
        /\ req = NoReq

NextFrozen ==
    \/ \E b \in backends : OnConnect(b)
    \/ \E b \in backends : OnDisconnect(b)
    \/ \E b \in backends : RecordSlow(b)
    \/ RebuildFrozen
    \/ \E f \in AcceptFns : SelectStart(<<>>, MaxBudget, f)
    \/ SelectStep
    \/ SelectReturn

SpecFrozen == InitFrozen /\ [][NextFrozen]_vars

\* the backends a running call has been given are the first of its selector
YieldsSelectorOrder ==
    IF sel.pc \in {"iter", "done"}
    THEN /\ Len(sel.out) <= Len(sel.selector.backends)
         /\ sel.out = SubSeq(sel.selector.backends, 1, Len(sel.out))
    ELSE TRUE

\* C35 (a built selector is frozen): a call that changes a metric leaves the
\* published selector and the selector of a running call as they were; the
\* published selector is in the order of the metric values it was built
\* from; an iterator yields the backends of its selector in that order; and
\* right after rebuild_selector the published order is that of the current
\* values.
C35_FrozenSelector ==
    /\ [][ (conns' # conns \/ latency' # latency)
           => (selector' = selector /\ sel' = sel) ]_vars
    /\ [](selector.backends \in SortedOrders(backends, ghost.built))
    /\ []YieldsSelectorOrder
    /\ [](ghost.op = "rebuild_selector"
          => selector.backends \in SortedOrders(backends, MetricsNow))

\* C35 case: the selector built from latencies {A:50, B:10, C:100} is still
\* published after B's latency rose above the others, and a call started
\* since was given B first
C35_Witness ==
    /\ strategy = "FastestServer"
    /\ selector.backends = <<2, 1, 3>>
    /\ Val(latency[2]) > Val(latency[3])
    /\ sel.pc = "done"
    /\ sel.selector = selector
    /\ sel.result = Some(2)

\* C35 case, after the rebuild: with B above the others the published
\* selector has A first
C35_RebuiltWitness ==
    /\ strategy = "FastestServer"
    /\ ghost.op = "rebuild_selector"
    /\ Val(latency[2]) > Val(latency[3])
    /\ selector.backends = <<1, 3, 2>>


-----------------------------------------------------------------------------
(* The connection ratio and the fixed point of the engine, under           *)
(* SpecEngine.                                                             *)

\* the active_connections values of the backends that track them
TrackedConns == {Val(conns[b]) : b \in {x \in backends : conns[x] # None}}

\* C36 (zero minimum in the connection ratio): when the smallest
\* active_connections value is 0 the connection ratio is 1, so with the
\* latency trigger quiet evaluate_strategy does not return FewestConnections.
C36_ZeroMinimum ==
    (Evaluated /\ ~LatencyTrigger /\ TrackedConns # {} /\ MinOf(TrackedConns) = 0)
    => ghost.to # "FewestConnections"

\* C36 case: counts with minimum 0 and maximum at or above
\* min_nr_of_connections, the latency trigger quiet, from a static strategy:
\* the engine returned FewestConnections
C36_Witness ==
    /\ Evaluated
    /\ ~LatencyTrigger
    /\ TrackedConns # {}
    /\ MinOf(TrackedConns) = 0
    /\ MaxOf(TrackedConns) >= MinNrOfConnections
    /\ ghost.from \notin Dynamic
    /\ ghost.to = "FewestConnections"

\* C37 (no oscillation under constant metrics): what evaluate_strategy
\* returned is a fixed point: evaluated again on the same snapshot it returns
\* the same strategy.
C37_FixedPoint ==
    Evaluated => evaluate_strategy(ghost.to, backends, conns, latency) = ghost.to

\* C37 case: with both triggers firing the engine went from FewestConnections
\* to FastestServer, from where the same snapshot sends it back
C37_Witness ==
    /\ Evaluated
    /\ LatencyTrigger
    /\ ConnectionTrigger
    /\ ghost.from = "FewestConnections"
    /\ ghost.to = "FastestServer"
    /\ evaluate_strategy(ghost.to, backends, conns, latency) = ghost.from


-----------------------------------------------------------------------------
(* SpecAgreement: the two swappable cells of the LoadBalancer, the         *)
(* strategy descriptor and the selector, written by the supervisor         *)
(* (update_strategy after an evaluation, rebuild_selector) and by the      *)
(* control plane (update_strategy) at the same time.  Each cell is read    *)
(* and written atomically; an operation is a read or write of the          *)
(* descriptor, then a build, then a write of the selector.  req[c] is the  *)
(* operation caller c is inside and the strategy it holds.                 *)
(***************************************************************************)

Callers == {"supervisor", "endpoint"}

IdleCaller == [pc |-> "idle", read |-> AdaptiveDefault]

\* the strategy a caller gives to update_strategy: the supervisor gives what
\* the engine returned, the control plane what the request body named
Requested(c) ==
    IF c = "supervisor"
    THEN {evaluate_strategy(strategy, backends, conns, latency)}
    ELSE Adaptive

\* rebuild_selector, first half: the current strategy is loaded
LoadStrategy(c) ==
    /\ c = "supervisor"
    /\ req[c].pc = "idle"
    /\ req' = [req EXCEPT ![c] = [pc |-> "rebuild_selector", read |-> strategy]]
    /\ UNCHANGED <<backends, weight, health, conns, counter, latency, config,
                   strategy, selector, cursor, sel, sup, ghost>>

\* update_strategy, first half: a strategy other than the current one is
\* stored in the descriptor
StoreStrategy(c, new_strategy) ==
    /\ req[c].pc = "idle"
    /\ new_strategy \in Requested(c)
    /\ new_strategy # strategy
    /\ strategy' = new_strategy
    /\ req' = [req EXCEPT ![c] = [pc |-> "update_strategy",
                                  read |-> new_strategy]]
    /\ UNCHANGED <<backends, weight, health, conns, counter, latency, config,
                   selector, cursor, sel, sup, ghost>>

\* second half of both: the strategy the caller holds builds from the snapshot
\* and the selector is stored
StoreSelector(c) ==
    /\ req[c].pc # "idle"
    /\ selector' \in build_backend_selector(req[c].read, backends, weight,
                                            conns, latency)
    /\ cursor' = 0
    /\ req' = [req EXCEPT ![c] = IdleCaller]
    /\ ghost' = [op |-> req[c].pc, age |-> 0, by |-> c, built |-> req[c].read,
                 current |-> strategy, replaced |-> selector.kind]
    /\ UNCHANGED <<backends, weight, health, conns, counter, latency, config,
                   strategy, sel, sup>>

InitAgreement ==
    \E kind \in Adaptive :
        /\ backends = {1, 2}
        /\ conns = <<Some(900), Some(1200)>>
        /\ counter = [b \in backends |-> CounterOf(conns[b])]
        /\ latency = <<Some(10), Some(50)>>
        /\ config = Options(kind, None, None)
        /\ strategy = kind
        /\ weight = [b \in backends |-> 1]
        /\ health = [b \in backends |-> DefaultHealth]
        /\ selector \in build_backend_selector(kind, backends, weight, conns,
                                                latency)
        /\ cursor = 0
        /\ sel = IdleSel
        /\ sup = IdleSup
        /\ ghost = [op |-> "none", age |-> 0, by |-> "none", built |-> kind,
                    current |-> kind, replaced |-> kind]
        /\ req = [c \in Callers |-> IdleCaller]

NextAgreement ==
    \/ \E c \in Callers : LoadStrategy(c)
    \/ \E c \in Callers, s \in Adaptive : StoreStrategy(c, s)
    \/ \E c \in Callers : StoreSelector(c)

SpecAgreement == InitAgreement /\ [][NextAgreement]_vars

\* no caller is inside update_strategy or rebuild_selector
Completed == \A c \in Callers : req[c].pc = "idle"

-----------------------------------------------------------------------------
(* SpecRace: record_latency called on the LatencyEWMA of one backend by    *)
(* requests that finish at the same time.  The average is an atomic cell;  *)
(* record_latency loads it, computes, and stores, in two accesses.         *)
(* req[t] is the call request t is inside: the average it loaded and its   *)
(* sample.  ghost.samples are the samples of the calls begun so far.       *)
(***************************************************************************)

\* the average the backend holds when the requests arrive
RecordedAverage == 16

IdleRecord == [pc |-> "idle", old |-> 0, sample |-> 0]

\* fastest_server.rs line 84: self.load(Relaxed)
LoadAverage(t, b, latency_ms) ==
    /\ req[t].pc = "idle"
    /\ Len(ghost.samples) < MaxCalls
    /\ req' = [req EXCEPT ![t] = [pc |-> "loaded", old |-> Val(latency[b]),
                                  sample |-> latency_ms]]
    /\ ghost' = [ghost EXCEPT !.op = "load",
                              !.samples = Append(@, latency_ms)]
    /\ UNCHANGED <<backends, weight, health, conns, counter, latency, config,
                   strategy, selector, cursor, sel, sup>>

\* lines 85-94: the new average is computed from the loaded one and stored
StoreAverage(t, b) ==
    /\ req[t].pc = "loaded"
    /\ latency' = [latency EXCEPT ![b] = record_latency(Some(req[t].old),
                                            req[t].sample, SmoothingFactor10)]
    /\ req' = [req EXCEPT ![t] = IdleRecord]
    /\ ghost' = [ghost EXCEPT !.op = "store",
                              !.stale = (req[t].old # Val(latency[b]))]
    /\ UNCHANGED <<backends, weight, health, conns, counter, config, strategy,
                   selector, cursor, sel, sup>>

InitRace ==
    /\ backends = {1}
    /\ conns = [b \in backends |-> Some(0)]
    /\ counter = [b \in backends |-> CounterOf(conns[b])]
    /\ latency = [b \in backends |-> Some(RecordedAverage)]
    /\ config = Options("FastestServer", None, None)
    /\ strategy = "FastestServer"
    /\ weight = [b \in backends |-> 1]
    /\ health = [b \in backends |-> DefaultHealth]
    /\ selector \in build_backend_selector(strategy, backends, weight, conns,
                                            latency)
    /\ cursor = 0
    /\ sel = IdleSel
    /\ sup = IdleSup
    /\ ghost = [op |-> "none", age |-> 0, samples |-> <<>>, stale |-> FALSE]
    /\ req = [t \in 1..MaxThreads |-> IdleRecord]

NextRace ==
    \/ \E t \in 1..MaxThreads, b \in backends, x \in EwmaSamples :
          LoadAverage(t, b, x)
    \/ \E t \in 1..MaxThreads, b \in backends : StoreAverage(t, b)

SpecRace == InitRace /\ [][NextRace]_vars

\* record_latency applied to the samples of a sequence one after another
RECURSIVE ApplyAll(_, _)
ApplyAll(old, samples) ==
    IF samples = <<>> THEN old
    ELSE ApplyAll(record_latency(old, Head(samples), SmoothingFactor10),
                  Tail(samples))

\* the averages that the samples begun so far give in some order
Serial ==
    {ApplyAll(Some(RecordedAverage),
              [i \in 1..Len(ghost.samples) |-> ghost.samples[p[i]]])
        : p \in Perms(1..Len(ghost.samples))}

NoneRecording == \A t \in 1..MaxThreads : req[t].pc = "idle"

\* C39 (record_latency is atomic): when the concurrent record_latency calls on
\* a backend have all returned, its average is the one that applying all
\* their samples one after another, in some order, gives; no sample is lost.
C39_AtomicRecord ==
    NoneRecording => \A b \in backends : latency[b] \in Serial

\* two requests loaded the same average, both stored, and the average is that
\* of the second store alone: the first sample is lost
C39_Witness ==
    /\ NoneRecording
    /\ Len(ghost.samples) = 2
    /\ ghost.samples[1] # ghost.samples[2]
    /\ ghost.stale
    /\ latency[1] \notin Serial
    /\ \E i \in 1..2 :
          latency[1] = record_latency(Some(RecordedAverage), ghost.samples[i],
                                      SmoothingFactor10)


-----------------------------------------------------------------------------
(* Snapshots of fewer than two backends, under SpecEngine.                 *)
(***************************************************************************)

\* C40 (fewer than two backends): when the snapshot holds zero or one backend
\* evaluate_strategy returns neither FewestConnections nor FastestServer,
\* whatever the metrics are: a static current strategy is returned as it is
\* and a dynamic one falls back to RoundRobin.
C40_FewerThanTwo ==
    (Evaluated /\ Cardinality(backends) < 2) =>
        /\ ghost.to \notin Dynamic
        /\ ghost.from \notin Dynamic => ghost.to = ghost.from
        /\ ghost.from \in Dynamic => ghost.to = "RoundRobin"

\* one backend with connections above the minimum and a recorded latency; the
\* engine was asked from a dynamic strategy and fell back to RoundRobin
C40_Witness ==
    /\ Evaluated
    /\ Cardinality(backends) = 1
    /\ \A b \in backends : /\ conns[b] # None
                           /\ Val(conns[b]) >= MinNrOfConnections
                           /\ latency[b] # None
                           /\ Val(latency[b]) > 0
    /\ ghost.from \in Dynamic
    /\ ghost.to = "RoundRobin"

\* the same with no backend at all, asked from a static strategy
C40_EmptyWitness ==
    /\ Evaluated
    /\ backends = {}
    /\ ghost.from = "Consistent"
    /\ ghost.to = "Consistent"

=============================================================================
